---------------------------- MODULE Spec2Model ----------------------------
(***************************************************************************)
(* State-machine model of sotehus-power's aggregation core:                *)
(*   - DataManager (src/src/application/data_manager.py): the observer     *)
(*     counter, the lazily created resource handles, the latest grid-power *)
(*     sample and the singleton construction;                              *)
(*   - InfluxDB2Client (src/src/backend/influxdb2_client.py): the sink's   *)
(*     connection state and its reconnection backoff.                      *)
(*                                                                         *)
(* Threads execute the methods statement by statement; a `with lock:`      *)
(* block is entered only when CanAcquire holds of the lock.  Each          *)
(* subsystem has its own specification (SpecClients, SpecRes, SpecPower,   *)
(* SpecNew, SpecSink) over the same variables; the variables a             *)
(* specification does not exercise keep their values after construction.   *)
(*                                                                         *)
(* Units: power in milliwatt (1234568 is 1234.568 W), time in seconds.     *)
(***************************************************************************)
EXTENDS Integers, Sequences, FiniteSets, TLC, Bags

\* ------------------------------------------------------------ bounds
NumThreads == 2
MaxCalls == 3
MaxObjs == 3
StartTime == 100
MaxElapsed == 140
TickStep == 5

\* ------------------------------------------------- program constants
InitialReconnectDelay == 5
MaxReconnectDelay == 60

Threads == 1..NumThreads
None == 0

VARIABLES
    pc,                     \* position of each thread
    calls,                  \* number of calls started so far (bounded)
    \* -- DataManager: client connection tracking
    connected_clients,      \* self._connected_clients
    clients_lock,           \* self._clients_lock: 0 free, else the holder
    tmp,                    \* per thread: the value loaded from the counter
    cret,                   \* per thread: the last value a counter call returned
    nInc, nDec,             \* increment / decrement calls that have returned
    \* -- DataManager: lazily created resource handles, per kind
    handle,                 \* self._mqtt_client / self._influxdb_client
    res_lock,               \* self._mqtt_lock / self._influxdb_lock
    rret,                   \* per thread: what the last create/get call returned
    ctorCalls, ctorOk,      \* constructor invocations / successful ones, per kind
    bodyRuns,               \* create calls that found no handle cached, per kind
    \* -- DataManager: grid power sample
    heap,                   \* the dict objects allocated so far, by identity
    latest,                 \* self._latest_power_data: None or a dict's identity
    power_data_lock,        \* self._power_data_lock
    args,                   \* per thread: (power, timestamp) of its update call
    held,                   \* per thread: identity of the dict its get returned
    snap,                   \* per thread: what the caller itself put in that dict
    lastUpdate,             \* arguments of the update that last replaced the sample
    seen,                   \* per thread: what its last call, a get, saw and returned
    latest_spot_price,      \* self._latest_spot_price
    latest_solar_production,\* self._latest_solar_production
    data_cache_lock,        \* self._data_cache_lock
    wloc,                   \* per thread: locals of _write_to_influxdb
    \* -- DataManager: singleton construction
    instance,               \* DataManager._instance: None or an object identity
    cls_lock,               \* DataManager._lock
    created,                \* objects created by super().__new__
    hasInitAttr,            \* objects that have an _initialized attribute
    initialized,            \* objects whose _initialized is True
    self,                   \* per thread: the object its __new__ returned
    nres,                   \* per thread: outcome of its DataManager() call
    \* -- InfluxDB2Client
    sinkConnected,          \* self._connected
    sinkClient,             \* self._client is not None
    lastAttempt,            \* self._last_connection_attempt
    reconnectDelay,         \* self._reconnect_delay
    sinkHost,               \* a host is configured
    sinkAuth,               \* token, or user and password, are configured
    sinkMade,               \* the constructor returned an object
    now,                    \* time.time()
    prevAttempt,            \* time of the sink's previous _connect call
    sinkLast,               \* what the last sink operation did
    \* -- MQTTPowerClient
    current_power,          \* self.current_power
    last_updated,           \* self.last_updated
    power_callback,         \* self.power_callback is set
    delivered,              \* messages the network loop has delivered so far
    cbLog,                  \* the calls made to the power callback, in order
    accepted,               \* the samples that arrived for the callback, in order
    mqttLast,               \* what the last _on_message call did
    is_connected,           \* self.is_connected
    mqttEvent,              \* the last connection event of the MQTT client
    \* -- SpotPriceDashboard
    clock,                  \* get_current_time(), in minutes
    last_price_update,      \* self.last_price_update
    last_solar_update,      \* self.last_solar_update
    solar_available,        \* self.solar_available
    solar_update_interval,  \* self.solar_update_interval
    tasks,                  \* the background_update_loop tasks running, as a bag
    current_price,          \* self.current_price
    current_solar_power,    \* self.current_solar_power
    schedLast,              \* what the last iteration of the loop did
    solar_calls,            \* the solar API calls of the current day, if counted
    sessions,               \* the browser sessions that are open
    \* -- solar_edge: is_sun_up, calculate_solar_update_interval
    sunIn,                  \* what sun() and datetime.now() give the next call
    budgetIn,               \* max_daily_calls and usage_percent of the next call
    solarRet,               \* what the last call did with them
    \* -- InfluxDB2Client called by several threads
    sloc,                   \* per thread: the method it is in and its current_time
    \* -- the write API of the sink, as DataManager uses it
    lastPoint               \* the last point _write_to_influxdb had written, if recorded

commonVars == <<pc, calls>>
clientVars == <<connected_clients, clients_lock, tmp, cret, nInc, nDec>>
resVars == <<handle, res_lock, rret, ctorCalls, ctorOk, bodyRuns>>
sampleVars == <<heap, latest, power_data_lock, args, held, snap, lastUpdate, seen>>
cacheVars == <<latest_spot_price, latest_solar_production, data_cache_lock, wloc>>
newVars == <<instance, cls_lock, created, hasInitAttr, initialized, self, nres>>
sinkVars == <<sinkConnected, sinkClient, lastAttempt, reconnectDelay, sinkHost,
              sinkAuth, sinkMade, now, prevAttempt, sinkLast>>
mqttVars == <<current_power, last_updated, power_callback, delivered, cbLog, accepted,
              mqttLast, is_connected, mqttEvent>>
schedVars == <<clock, last_price_update, last_solar_update, solar_available,
               solar_update_interval, tasks, current_price,
               current_solar_power, schedLast, solar_calls, sessions>>
sunVars == <<sunIn, budgetIn, solarRet>>
raceVars == <<sloc>>
appVars == <<mqttVars, schedVars, sunVars, raceVars, lastPoint>>
vars == <<commonVars, clientVars, resVars, sampleVars, cacheVars, newVars, sinkVars,
          appVars>>

Max(a, b) == IF a >= b THEN a ELSE b
Min(a, b) == IF a <= b THEN a ELSE b

\* A lock that excludes nobody.
CanAcquireAlways(lock) == TRUE

\* `with lock:` blocks until no thread holds the lock.
CanAcquire(lock) == lock = 0

Goto(t, label) == pc' = [pc EXCEPT ![t] = label]
AllIdle == \A t \in Threads : pc[t] = "idle"

\* A thread starts a call only from "idle"; the number of calls is bounded.
CanCall(t) == pc[t] = "idle" /\ calls < MaxCalls

(***************************************************************************)
(* DataManager: client connection tracking                                 *)
(***************************************************************************)
NoCount == [op |-> "none", val |-> 0]

InitClients ==
    /\ connected_clients = 0
    /\ clients_lock = 0
    /\ tmp = [t \in Threads |-> 0]
    /\ cret = [t \in Threads |-> NoCount]
    /\ nInc = 0
    /\ nDec = 0

notClients == <<resVars, sampleVars, cacheVars, newVars, sinkVars, appVars>>

\* self._connected_clients += 1
Incremented(v) == v + 1

\* The decrement without its floor at zero.
DecrementedUnclamped(v) == v - 1

\* self._connected_clients = max(0, self._connected_clients - 1)
Decremented(v) == Max(0, v - 1)

\* A counter call enters its `with self._clients_lock:` block.
ClientsAcquire(t, op) ==
    /\ CanCall(t)
    /\ CanAcquire(clients_lock)
    /\ clients_lock' = t
    /\ calls' = calls + 1
    /\ Goto(t, op)
    /\ UNCHANGED <<connected_clients, tmp, cret, nInc, nDec, notClients>>

\* The load of self._connected_clients that starts the update.
ClientsLoad(t) ==
    /\ pc[t] \in {"inc_load", "dec_load"}
    /\ tmp' = [tmp EXCEPT ![t] = connected_clients]
    /\ Goto(t, IF pc[t] = "inc_load" THEN "inc_store" ELSE "dec_store")
    /\ UNCHANGED <<calls, connected_clients, clients_lock, cret, nInc, nDec, notClients>>

\* The store that ends the update.
ClientsStore(t) ==
    /\ pc[t] \in {"inc_store", "dec_store"}
    /\ connected_clients' = IF pc[t] = "inc_store" THEN Incremented(tmp[t])
                                                   ELSE Decremented(tmp[t])
    /\ Goto(t, IF pc[t] = "inc_store" THEN "inc_copy" ELSE "dec_copy")
    /\ UNCHANGED <<calls, clients_lock, tmp, cret, nInc, nDec, notClients>>

\* count = self._connected_clients, and the end of the with block.
ClientsCopy(t) ==
    /\ pc[t] \in {"inc_copy", "dec_copy", "get_copy"}
    /\ tmp' = [tmp EXCEPT ![t] = connected_clients]
    /\ clients_lock' = 0
    /\ Goto(t, CASE pc[t] = "inc_copy" -> "inc_ret"
                 [] pc[t] = "dec_copy" -> "dec_ret"
                 [] OTHER -> "get_ret")
    /\ UNCHANGED <<calls, connected_clients, cret, nInc, nDec, notClients>>

\* return count
ClientsReturn(t) ==
    /\ pc[t] \in {"inc_ret", "dec_ret", "get_ret"}
    /\ cret' = [cret EXCEPT ![t] =
                  [op |-> CASE pc[t] = "inc_ret" -> "inc"
                            [] pc[t] = "dec_ret" -> "dec"
                            [] OTHER -> "get",
                   val |-> tmp[t]]]
    /\ nInc' = IF pc[t] = "inc_ret" THEN nInc + 1 ELSE nInc
    /\ nDec' = IF pc[t] = "dec_ret" THEN nDec + 1 ELSE nDec
    /\ tmp' = [tmp EXCEPT ![t] = 0]
    /\ Goto(t, "idle")
    /\ UNCHANGED <<calls, connected_clients, clients_lock, notClients>>

increment_clients(t) == ClientsAcquire(t, "inc_load")
decrement_clients(t) == ClientsAcquire(t, "dec_load")
get_client_count(t) == ClientsAcquire(t, "get_copy")


(***************************************************************************)
(* DataManager: lazily created resource handles.  create_mqtt_client and   *)
(* create_influxdb_client have the same shape, as have the two getters:    *)
(* the kind selects the handle, its lock and its constructor.              *)
(***************************************************************************)
Kinds == {"mqtt", "influxdb"}
NoResult == [op |-> "none", kind |-> "mqtt", val |-> None, raised |-> FALSE, done |-> FALSE]

InitRes ==
    /\ res_lock = [k \in Kinds |-> 0]
    /\ rret = [t \in Threads |-> NoResult]
    /\ ctorCalls = [k \in Kinds |-> 0]
    /\ bodyRuns = [k \in Kinds |-> 0]

notRes == <<clientVars, sampleVars, cacheVars, newVars, sinkVars, appVars>>

\* A constructor that raised with its failure remembered in the handle.
HandleAfterRaiseCached(old) == -1

\* self._mqtt_client = MQTTPowerClient() with the constructor raising: the
\* assignment does not happen.
HandleAfterRaise(old) == old

\* What a constructor does on the network: InfluxDB2Client.__init__ ends with
\* self._connect(), which opens the connection and asks for the health of
\* the server; MQTTPowerClient.__init__ only builds the client object.
CtorConnects(k) == k = "influxdb"

\* A create or get call enters its `with self._mqtt_lock:` block.
ResAcquire(t, k, op) ==
    /\ CanCall(t)
    /\ CanAcquire(res_lock[k])
    /\ res_lock' = [res_lock EXCEPT ![k] = t]
    /\ rret' = [rret EXCEPT ![t] = [NoResult EXCEPT !.op = op, !.kind = k]]
    /\ calls' = calls + 1
    /\ Goto(t, IF op = "create" THEN "create_check" ELSE "get_read")
    /\ UNCHANGED <<handle, ctorCalls, ctorOk, bodyRuns, notRes>>

create_client(t, k) == ResAcquire(t, k, "create")
get_client(t, k) == ResAcquire(t, k, "get")

\* if self._mqtt_client is None:
CreateCheck(t) ==
    /\ pc[t] = "create_check"
    /\ LET k == rret[t].kind IN
         IF handle[k] = None
         THEN /\ bodyRuns' = [bodyRuns EXCEPT ![k] = @ + 1]
              /\ Goto(t, "create_ctor")
         ELSE /\ Goto(t, "create_cached")
              /\ UNCHANGED bodyRuns
    /\ UNCHANGED <<calls, handle, res_lock, rret, ctorCalls, ctorOk, notRes>>

\* try: self._mqtt_client = MQTTPowerClient(); return self._mqtt_client
\* except Exception: return None
CreateCtor(t) ==
    /\ pc[t] = "create_ctor"
    /\ LET k == rret[t].kind IN
       \E outcome \in {"ok", "raise"} :
         /\ ctorCalls' = [ctorCalls EXCEPT ![k] = @ + 1]
         /\ IF outcome = "ok"
            THEN /\ ctorOk' = [ctorOk EXCEPT ![k] = @ + 1]
                 /\ handle' = [handle EXCEPT ![k] = ctorOk[k] + 1]
                 /\ rret' = [rret EXCEPT ![t].val = ctorOk[k] + 1]
            ELSE /\ handle' = [handle EXCEPT ![k] = HandleAfterRaise(@)]
                 /\ rret' = [rret EXCEPT ![t].raised = TRUE, ![t].val = None]
                 /\ UNCHANGED ctorOk
    /\ Goto(t, "res_release")
    /\ UNCHANGED <<calls, res_lock, bodyRuns, notRes>>

\* return self._mqtt_client, in create (handle cached) and in get
ResRead(t) ==
    /\ pc[t] \in {"create_cached", "get_read"}
    /\ rret' = [rret EXCEPT ![t].val = handle[rret[t].kind]]
    /\ Goto(t, "res_release")
    /\ UNCHANGED <<calls, handle, res_lock, ctorCalls, ctorOk, bodyRuns, notRes>>

\* The with block ends and the call returns.
ResRelease(t) ==
    /\ pc[t] = "res_release"
    /\ res_lock' = [res_lock EXCEPT ![rret[t].kind] = 0]
    /\ rret' = [rret EXCEPT ![t].done = TRUE]
    /\ Goto(t, "idle")
    /\ UNCHANGED <<calls, handle, ctorCalls, ctorOk, bodyRuns, notRes>>

(***************************************************************************)
(* InfluxDB2Client.  Its state is the record                               *)
(*   [connected, client, lastAttempt, delay]                               *)
(* and each method is a function from that state, the clock and what the   *)
(* external store answers to the new state and the method's result.        *)
(***************************************************************************)
ConnectOutcomes == {"pass", "fail", "raise_ctor", "raise_health"}
WriteOutcomes == {"ok", "raise"}

SinkState == [connected |-> sinkConnected, client |-> sinkClient,
              lastAttempt |-> lastAttempt, delay |-> reconnectDelay]

\* _connect: the state it leaves and the value it returns.
\*   pass:         health.status == "pass"
\*   fail:         the health check answers anything else
\*   raise_ctor:   InfluxDBClient(...) raises
\*   raise_health: write_api() or health() raises
\* Without token and without user and password nothing is assigned.
Connect(s, auth, outcome) ==
    IF ~auth THEN [s |-> s, ret |-> FALSE]
    ELSE CASE outcome = "pass" ->
                [s |-> [s EXCEPT !.client = TRUE, !.connected = TRUE], ret |-> TRUE]
           [] outcome = "fail" ->
                [s |-> [s EXCEPT !.client = TRUE], ret |-> FALSE]
           [] outcome = "raise_ctor" ->
                [s |-> [s EXCEPT !.connected = FALSE], ret |-> FALSE]
           [] OTHER ->
                [s |-> [s EXCEPT !.client = TRUE, !.connected = FALSE], ret |-> FALSE]

\* The backoff doubled without its cap.
NextDelayUncapped(d) == d * 2

\* self._reconnect_delay = min(self._reconnect_delay * 2, 60)
NextDelay(d) == Min(d * 2, MaxReconnectDelay)

\* if current_time - self._last_connection_attempt < self._reconnect_delay
Throttled(s, time) == time - s.lastAttempt < s.delay

\* The backoff started afresh after a successful reconnection.
DelayAfterReconnectReset(d) == InitialReconnectDelay

\* if self._connect(): print(...); return True -- self._reconnect_delay is
\* not assigned.
DelayAfterReconnect(d) == d

\* _ensure_connection
EnsureConnection(s, time, auth, outcome) ==
    IF s.connected /\ s.client
    THEN [s |-> s, ret |-> TRUE, attempted |-> FALSE, ok |-> FALSE]
    ELSE IF Throttled(s, time)
    THEN [s |-> s, ret |-> FALSE, attempted |-> FALSE, ok |-> FALSE]
    ELSE LET c == Connect([s EXCEPT !.lastAttempt = time], auth, outcome) IN
         IF c.ret
         THEN [s |-> [c.s EXCEPT !.delay = DelayAfterReconnect(@)],
               ret |-> TRUE, attempted |-> TRUE, ok |-> TRUE]
         ELSE [s |-> [c.s EXCEPT !.delay = NextDelay(@)],
               ret |-> FALSE, attempted |-> TRUE, ok |-> FALSE]

\* The write going ahead whatever _ensure_connection returned.
ProceedsAlways(ensured) == TRUE

\* if not self._ensure_connection(): return False
Proceeds(ensured) == ensured

\* The write error caught and the sink left marked as connected.
AfterWriteErrorStillConnected(s) == s

\* except Exception: self._connected = False
AfterWriteError(s) == [s EXCEPT !.connected = FALSE]

\* write_power_data
WritePowerData(s, time, auth, outcome, wout) ==
    LET e == EnsureConnection(s, time, auth, outcome) IN
    IF ~Proceeds(e.ret)
    THEN [s |-> e.s, ret |-> FALSE, attempted |-> e.attempted, ok |-> e.ok,
          wrote |-> FALSE, raised |-> FALSE]
    ELSE IF wout = "ok"
    THEN [s |-> e.s, ret |-> TRUE, attempted |-> e.attempted, ok |-> e.ok,
          wrote |-> TRUE, raised |-> FALSE]
    ELSE [s |-> AfterWriteError(e.s), ret |-> FALSE,
          attempted |-> e.attempted, ok |-> e.ok, wrote |-> TRUE, raised |-> TRUE]

\* close() calling close on the client whether or not there is one.
ClosesUnderlyingAlways(s) == TRUE

\* if self._client: self._client.close()
ClosesUnderlying(s) == s.client

\* close: whatever self._client.close() does, the finally block runs.
Close(s) ==
    IF s.client THEN [s EXCEPT !.connected = FALSE, !.client = FALSE] ELSE s

\* if not self.host: raise ValueError(...)
SinkInitRaises(host) == ~host

NoSinkOp == [op |-> "none", connectedBefore |-> FALSE, attempted |-> FALSE,
             ok |-> FALSE, ret |-> FALSE, wrote |-> FALSE, raised |-> FALSE,
             closed |-> FALSE, again |-> FALSE, changed |-> FALSE,
             delayBefore |-> 0, due |-> FALSE]

\* What an operation did, for the properties: the sink's state when it was
\* called, whether it called _connect and with what result, what it returned,
\* whether it called write on the write API and whether that raised, whether
\* it called close on the client, whether it is a close() that follows a
\* close(), whether it changed the sink's state, and whether the backoff delay
\* had elapsed since the sink's previous _connect call.
SinkOp(op, r) ==
    [op |-> op, connectedBefore |-> sinkConnected /\ sinkClient,
     attempted |-> r.attempted, ok |-> r.ok, ret |-> r.ret, wrote |-> r.wrote,
     raised |-> r.raised, closed |-> r.closed,
     again |-> op = "close" /\ sinkLast.op = "close",
     changed |-> r.s # SinkState,
     delayBefore |-> reconnectDelay, due |-> now - prevAttempt >= reconnectDelay]

SetSink(s) ==
    /\ sinkConnected' = s.connected
    /\ sinkClient' = s.client
    /\ lastAttempt' = s.lastAttempt
    /\ reconnectDelay' = s.delay

\* The fields __init__ sets before its _connect() call.
NewSink == [connected |-> FALSE, client |-> FALSE, lastAttempt |-> 0,
            delay |-> InitialReconnectDelay]

\* __init__: without a host it raises and there is no object; with one, the
\* fields are set and the initial _connect() is made.
InitSink ==
    /\ sinkHost \in BOOLEAN
    /\ sinkAuth \in BOOLEAN
    /\ sinkMade = ~SinkInitRaises(sinkHost)
    /\ now = StartTime
    /\ prevAttempt = StartTime
    /\ sinkLast = NoSinkOp
    /\ \E outcome \in ConnectOutcomes :
         LET c == IF sinkMade THEN Connect(NewSink, sinkAuth, outcome)
                              ELSE [s |-> NewSink, ret |-> FALSE]
         IN /\ sinkConnected = c.s.connected
            /\ sinkClient = c.s.client
            /\ lastAttempt = c.s.lastAttempt
            /\ reconnectDelay = c.s.delay

notSink == <<commonVars, clientVars, resVars, sampleVars, cacheVars, newVars, appVars>>

\* time.time() advances.
Tick ==
    /\ now + TickStep <= StartTime + MaxElapsed
    /\ now' = now + TickStep
    /\ UNCHANGED <<sinkConnected, sinkClient, lastAttempt, reconnectDelay, sinkHost,
                   sinkAuth, sinkMade, prevAttempt, sinkLast, notSink>>

SinkEnsureConnection ==
    /\ sinkMade
    /\ \E outcome \in ConnectOutcomes :
         LET r == EnsureConnection(SinkState, now, sinkAuth, outcome) IN
         /\ SetSink(r.s)
         /\ prevAttempt' = IF r.attempted THEN now ELSE prevAttempt
         /\ sinkLast' = SinkOp("ensure", r @@ [wrote |-> FALSE, raised |-> FALSE,
                                               closed |-> FALSE])
    /\ UNCHANGED <<sinkHost, sinkAuth, sinkMade, now, notSink>>

SinkWritePowerData ==
    /\ sinkMade
    /\ \E outcome \in ConnectOutcomes, wout \in WriteOutcomes :
         LET r == WritePowerData(SinkState, now, sinkAuth, outcome, wout) IN
         /\ SetSink(r.s)
         /\ prevAttempt' = IF r.attempted THEN now ELSE prevAttempt
         /\ sinkLast' = SinkOp("write", r @@ [closed |-> FALSE])
    /\ UNCHANGED <<sinkHost, sinkAuth, sinkMade, now, notSink>>

SinkClose ==
    /\ sinkMade
    /\ SetSink(Close(SinkState))
    /\ sinkLast' = SinkOp("close", [s |-> Close(SinkState), attempted |-> FALSE,
                                    ok |-> FALSE, ret |-> FALSE, wrote |-> FALSE,
                                    raised |-> FALSE,
                                    closed |-> ClosesUnderlying(SinkState)])
    /\ UNCHANGED <<sinkHost, sinkAuth, sinkMade, now, prevAttempt, notSink>>

(***************************************************************************)
(* InfluxDB2Client called by several threads at once.  The class has no    *)
(* lock: a thread can be suspended between any two statements of           *)
(* _ensure_connection and write_power_data.                                *)
(***************************************************************************)
MaxRaceElapsed == 10

NoSinkCall == [op |-> "none", current_time |-> 0]

InitRace == sloc = [t \in Threads |-> NoSinkCall]

notRace == <<clientVars, resVars, sampleVars, cacheVars, newVars, mqttVars, schedVars,
             sunVars, lastPoint>>

\* time.time() advances while threads are in the sink's methods.
RaceTick ==
    /\ now + TickStep <= StartTime + MaxRaceElapsed
    /\ now' = now + TickStep
    /\ UNCHANGED <<sinkConnected, sinkClient, lastAttempt, reconnectDelay, sinkHost,
                   sinkAuth, sinkMade, prevAttempt, sinkLast, notSink>>

\* The call returns.
SinkReturn(t) ==
    /\ sloc' = [sloc EXCEPT ![t] = NoSinkCall]
    /\ Goto(t, "idle")

\* A thread calls _ensure_connection, directly or as the first statement of
\* write_power_data.
sink_call(t, op) ==
    /\ sinkMade
    /\ CanCall(t)
    /\ calls' = calls + 1
    /\ sloc' = [sloc EXCEPT ![t] = [op |-> op, current_time |-> 0]]
    /\ Goto(t, "e_check")
    /\ UNCHANGED <<sinkVars, notRace>>

\* if self._connected and self._client: return True
\* current_time = time.time()
\* if current_time - self._last_connection_attempt < self._reconnect_delay:
\*     return False
EnsureCheck(t) ==
    /\ pc[t] = "e_check"
    /\ IF sinkConnected /\ sinkClient
       THEN IF sloc[t].op = "write"
            THEN Goto(t, "e_write") /\ UNCHANGED sloc
            ELSE SinkReturn(t)
       ELSE IF Throttled(SinkState, now)
       THEN SinkReturn(t)
       ELSE /\ sloc' = [sloc EXCEPT ![t].current_time = now]
            /\ Goto(t, "e_mark")
    /\ UNCHANGED <<calls, sinkVars, notRace>>

\* self._last_connection_attempt = current_time; the thread then enters
\* _connect().
EnsureMark(t) ==
    /\ pc[t] = "e_mark"
    /\ lastAttempt' = sloc[t].current_time
    /\ Goto(t, "e_connect")
    /\ UNCHANGED <<calls, sloc, sinkConnected, sinkClient, reconnectDelay, sinkHost,
                   sinkAuth, sinkMade, now, prevAttempt, sinkLast, notRace>>

\* _connect() ends: if it succeeded _ensure_connection returns True.
EnsureConnect(t) ==
    /\ pc[t] = "e_connect"
    /\ \E outcome \in ConnectOutcomes :
         LET c == Connect(SinkState, sinkAuth, outcome) IN
         /\ sinkConnected' = c.s.connected
         /\ sinkClient' = c.s.client
         /\ IF ~c.ret THEN Goto(t, "e_backoff") /\ UNCHANGED sloc
            ELSE IF sloc[t].op = "write" THEN Goto(t, "e_write") /\ UNCHANGED sloc
            ELSE SinkReturn(t)
    /\ prevAttempt' = now
    /\ UNCHANGED <<calls, lastAttempt, reconnectDelay, sinkHost, sinkAuth, sinkMade,
                   now, sinkLast, notRace>>

\* self._reconnect_delay = min(self._reconnect_delay * 2, 60); return False
EnsureBackoff(t) ==
    /\ pc[t] = "e_backoff"
    /\ reconnectDelay' = NextDelay(reconnectDelay)
    /\ SinkReturn(t)
    /\ UNCHANGED <<calls, sinkConnected, sinkClient, lastAttempt, sinkHost, sinkAuth,
                   sinkMade, now, prevAttempt, sinkLast, notRace>>

\* self._write_api.write(...): return True, or on an exception
\* self._connected = False; return False
EnsureWrite(t) ==
    /\ pc[t] = "e_write"
    /\ \E wout \in WriteOutcomes :
         sinkConnected' = IF wout = "ok" THEN sinkConnected
                                         ELSE AfterWriteError(SinkState).connected
    /\ SinkReturn(t)
    /\ UNCHANGED <<calls, sinkClient, lastAttempt, reconnectDelay, sinkHost, sinkAuth,
                   sinkMade, now, prevAttempt, sinkLast, notRace>>

\* The threads that are inside _connect().
Connecting == {t \in Threads : pc[t] = "e_connect"}

(***************************************************************************)
(* DataManager: the latest grid power sample.  Dicts are objects: heap[i]  *)
(* is the content of the i-th dict allocated, and a reference is an index. *)
(***************************************************************************)
\* Powers a caller passes (mW), none of them halfway between two hundredths
\* of a watt.
PowerInputs == {1000000, 1234568}
\* Timestamps a caller passes.
Timestamps == {1, 2}
\* data['power'] = 9999 by a caller, on the dict it was given.
MutatedPower == 9999000

Absent == [present |-> FALSE, power |-> 0, timestamp |-> 0]
Present(d) == [present |-> TRUE, power |-> d.power, timestamp |-> d.timestamp]
NotSeen == [done |-> FALSE, upd |-> Absent, got |-> Absent]
NoLocals == [client |-> None, spot |-> None, solar |-> None, raised |-> FALSE]

\* round(power, 2), on milliwatts
Round2(p) == IF p >= 0 THEN ((p + 5) \div 10) * 10 ELSE -(((5 - p) \div 10) * 10)

\* The sample cut to two decimals instead of rounded.
NewSampleTruncated(power, timestamp) ==
    [power |-> (power \div 10) * 10, timestamp |-> timestamp]

\* {'power': round(power, 2), 'timestamp': timestamp}
NewSample(power, timestamp) == [power |-> Round2(power), timestamp |-> timestamp]

\* A dict no reference leads to any more: its content is gone.
Freed == [power |-> 0, timestamp |-> 0]

\* The identity a newly created dict gets: that of a reclaimed dict if there
\* is one, else a new one.
NewRef(h) ==
    IF \E i \in DOMAIN h : h[i] = Freed
    THEN CHOOSE i \in DOMAIN h : h[i] = Freed /\ \A j \in 1..(i - 1) : h[j] # Freed
    ELSE Len(h) + 1

\* The heap with a new dict of the given content.
NewDict(h, d) ==
    IF NewRef(h) = Len(h) + 1 THEN Append(h, d) ELSE [h EXCEPT ![NewRef(h)] = d]

\* Room for one more dict.
CanAllocate(h) == NewRef(h) <= MaxObjs

\* The stored dict itself handed out: <<heap, reference returned>>.
DictAlias(h, ref) == <<h, ref>>

\* self._latest_power_data.copy(): a new dict with the same items.
DictCopy(h, ref) == <<NewDict(h, h[ref]), NewRef(h)>>

\* The heap once the dicts that neither the store nor a caller refers to have
\* been reclaimed.
Collect(h, stored, refs) ==
    [i \in DOMAIN h |->
        IF i = stored \/ \E t \in Threads : refs[t] = i THEN h[i] ELSE Freed]

InitSample ==
    /\ heap = <<>>
    /\ latest = None
    /\ power_data_lock = 0
    /\ args = [t \in Threads |-> Absent]
    /\ held = [t \in Threads |-> None]
    /\ snap = [t \in Threads |-> Absent]
    /\ lastUpdate = Absent
    /\ seen = [t \in Threads |-> NotSeen]

\* A point with a field for every argument, None or not.
PointOfEveryArgument(grid_power, spot_price, solar_production, timestamp) ==
    [time |-> timestamp,
     fields |-> [grid_power |-> grid_power, spot_price |-> spot_price,
                 solar_production |-> solar_production]]

\* The point write_power_data builds: Point("power_monitoring").time(timestamp)
\* with a field for every argument that is not None.
PointOf(grid_power, spot_price, solar_production, timestamp) ==
    LET given == [grid_power |-> grid_power, spot_price |-> spot_price,
                  solar_production |-> solar_production]
    IN  [time |-> timestamp,
         fields |-> [k \in {n \in DOMAIN given : given[n] # None} |-> given[k]]]

\* The last point _write_to_influxdb handed to the write API: the point, the
\* arguments of the update_power_data call, what the call had read from the
\* cache, what the cache held at the moment of the write, and whether the
\* write API took the point.  NotRecorded where the points are not followed,
\* NoPoint before the first one.
NotRecorded == [on |-> FALSE]
NoPoint == [on |-> TRUE, any |-> FALSE]
Recorded(last, point, call, read, taken) ==
    IF last = NotRecorded THEN NotRecorded
    ELSE [on |-> TRUE, any |-> TRUE, point |-> point,
          power |-> call.power, timestamp |-> call.timestamp,
          readSpot |-> read.spot, readSolar |-> read.solar,
          spot |-> latest_spot_price, solar |-> latest_solar_production,
          taken |-> taken]

InitCache ==
    /\ latest_spot_price = None
    /\ latest_solar_production = None
    /\ data_cache_lock = 0
    /\ wloc = [t \in Threads |-> NoLocals]
    /\ lastPoint = NotRecorded

notSample == <<clientVars, resVars, cacheVars, newVars, sinkVars, appVars>>

\* get_latest_power_data enters `with self._power_data_lock:`.
get_latest_power_data(t) ==
    /\ CanCall(t)
    /\ CanAllocate(heap)
    /\ CanAcquire(power_data_lock)
    /\ power_data_lock' = t
    /\ calls' = calls + 1
    /\ seen' = [seen EXCEPT ![t] = NotSeen]
    /\ Goto(t, "getp_copy")
    /\ UNCHANGED <<heap, latest, args, held, snap, lastUpdate, notSample>>

\* return self._latest_power_data.copy() if self._latest_power_data else None
GetPowerCopy(t) ==
    /\ pc[t] = "getp_copy"
    /\ IF latest = None
       THEN /\ held' = [held EXCEPT ![t] = None]
            /\ snap' = [snap EXCEPT ![t] = Absent]
            /\ seen' = [seen EXCEPT ![t] = [done |-> TRUE, upd |-> lastUpdate,
                                            got |-> Absent]]
            /\ heap' = Collect(heap, latest, held')
       ELSE LET r == DictCopy(heap, latest) IN
            /\ held' = [held EXCEPT ![t] = r[2]]
            /\ heap' = Collect(r[1], latest, held')
            /\ snap' = [snap EXCEPT ![t] = Present(r[1][r[2]])]
            /\ seen' = [seen EXCEPT ![t] = [done |-> TRUE, upd |-> lastUpdate,
                                            got |-> Present(r[1][r[2]])]]
    /\ power_data_lock' = 0
    /\ Goto(t, "idle")
    /\ UNCHANGED <<calls, latest, args, lastUpdate, notSample>>

\* A caller assigns to the 'power' item of the dict it holds.
MutateReturned(t) ==
    /\ pc[t] = "idle"
    /\ held[t] # None
    /\ heap[held[t]].power # MutatedPower
    /\ heap' = [heap EXCEPT ![held[t]].power = MutatedPower]
    /\ snap' = [snap EXCEPT ![t].power = MutatedPower]
    /\ UNCHANGED <<commonVars, latest, power_data_lock, args, held, lastUpdate, seen,
                   notSample>>

\* update_power_data(power, timestamp) enters `with self._power_data_lock:`.
update_power_data(t, power, timestamp) ==
    /\ CanCall(t)
    /\ CanAllocate(heap)
    /\ CanAcquire(power_data_lock)
    /\ power_data_lock' = t
    /\ args' = [args EXCEPT ![t] = [present |-> TRUE, power |-> power,
                                    timestamp |-> timestamp]]
    /\ calls' = calls + 1
    /\ seen' = [seen EXCEPT ![t] = NotSeen]
    /\ Goto(t, "upd_store")
    /\ UNCHANGED <<heap, latest, held, snap, lastUpdate, notSample>>

\* self._latest_power_data = {...}, and the end of the with block.
UpdateStore(t) ==
    /\ pc[t] = "upd_store"
    /\ latest' = NewRef(heap)
    /\ heap' = Collect(NewDict(heap, NewSample(args[t].power, args[t].timestamp)),
                       latest', held)
    /\ lastUpdate' = args[t]
    /\ power_data_lock' = 0
    /\ Goto(t, "w_get")
    /\ UNCHANGED <<calls, args, held, snap, seen, notSample>>

\* _write_to_influxdb going on whatever get_influxdb_client() returned.
HasNoClientNever(client) == FALSE

\* if not influxdb_client
HasNoClient(client) == client = None

\* _write_to_influxdb: influxdb_client = self.get_influxdb_client();
\* if not influxdb_client: return
WriteGetClient(t) ==
    /\ pc[t] = "w_get"
    /\ CanAcquire(res_lock["influxdb"])
    /\ IF HasNoClient(handle["influxdb"])
       THEN /\ args' = [args EXCEPT ![t] = Absent]
            /\ Goto(t, "idle")
            /\ UNCHANGED wloc
       ELSE /\ wloc' = [wloc EXCEPT ![t].client = handle["influxdb"]]
            /\ Goto(t, "w_connected")
            /\ UNCHANGED args
    /\ UNCHANGED <<calls, clientVars, resVars, heap, latest, power_data_lock, held, snap,
                   lastUpdate, seen, latest_spot_price, latest_solar_production,
                   data_cache_lock, newVars, sinkVars, appVars>>

\* if not influxdb_client.is_connected(): return
\* The call is outside the try block: on None it raises AttributeError, which
\* leaves _write_to_influxdb and update_power_data.
WriteCheckConnected(t) ==
    /\ pc[t] = "w_connected"
    /\ IF wloc[t].client = None
       THEN /\ args' = [args EXCEPT ![t] = Absent]
            /\ wloc' = [wloc EXCEPT ![t] = [NoLocals EXCEPT !.raised = TRUE]]
            /\ Goto(t, "idle")
       ELSE IF sinkConnected
       THEN /\ Goto(t, "w_cache")
            /\ UNCHANGED <<args, wloc>>
       ELSE /\ args' = [args EXCEPT ![t] = Absent]
            /\ wloc' = [wloc EXCEPT ![t] = NoLocals]
            /\ Goto(t, "idle")
    /\ UNCHANGED <<calls, clientVars, resVars, heap, latest, power_data_lock, held, snap,
                   lastUpdate, seen, latest_spot_price, latest_solar_production,
                   data_cache_lock, newVars, sinkVars, appVars>>

\* with self._data_cache_lock: spot_price = ...; solar_production = ...
WriteReadCache(t) ==
    /\ pc[t] = "w_cache"
    /\ CanAcquire(data_cache_lock)
    /\ wloc' = [wloc EXCEPT ![t].spot = latest_spot_price,
                            ![t].solar = latest_solar_production]
    /\ Goto(t, "w_write")
    /\ UNCHANGED <<calls, clientVars, resVars, sampleVars, latest_spot_price,
                   latest_solar_production, data_cache_lock, newVars, sinkVars, appVars>>

\* try: success = influxdb_client.write_power_data(...) except Exception: print
\* with what the external store answers to a connection attempt and to a write.
WriteThroughWith(t, outcome, wout) ==
    /\ pc[t] = "w_write"
    /\ LET r == WritePowerData(SinkState, now, sinkAuth, outcome, wout) IN
         /\ SetSink(r.s)
         /\ prevAttempt' = IF r.attempted THEN now ELSE prevAttempt
         /\ sinkLast' = SinkOp("write", r @@ [closed |-> FALSE])
         /\ lastPoint' =
               IF r.wrote
               THEN Recorded(lastPoint,
                             PointOf(args[t].power, wloc[t].spot, wloc[t].solar,
                                     args[t].timestamp),
                             args[t], wloc[t], ~r.raised)
               ELSE lastPoint
    /\ args' = [args EXCEPT ![t] = Absent]
    /\ wloc' = [wloc EXCEPT ![t] = NoLocals]
    /\ Goto(t, "idle")
    /\ UNCHANGED <<calls, clientVars, resVars, heap, latest, power_data_lock, held, snap,
                   lastUpdate, seen, latest_spot_price, latest_solar_production,
                   data_cache_lock, newVars, sinkHost, sinkAuth, sinkMade, now,
                   mqttVars, schedVars, sunVars, raceVars>>

WriteThrough(t) ==
    \E outcome \in ConnectOutcomes, wout \in WriteOutcomes :
      WriteThroughWith(t, outcome, wout)

\* The thread of the MQTT client's network loop (client.loop_start()).
MqttThread == 1

\* SpotPriceDashboard.power_update_callback, called by the network loop for
\* every sample: self.data_manager.update_power_data(power, get_current_time()),
\* which enters `with self._power_data_lock:`.
power_update_callback(t, power, timestamp) ==
    /\ pc[t] = "idle"
    /\ CanAllocate(heap)
    /\ CanAcquire(power_data_lock)
    /\ power_data_lock' = t
    /\ args' = [args EXCEPT ![t] = [present |-> TRUE, power |-> power,
                                    timestamp |-> timestamp]]
    /\ seen' = [seen EXCEPT ![t] = NotSeen]
    /\ Goto(t, "upd_store")
    /\ UNCHANGED <<calls, heap, latest, held, snap, lastUpdate, notSample>>

(***************************************************************************)
(* MQTTPowerClient.  A payload is a sequence of bytes, each an ASCII        *)
(* character or BadByte; a power is a number of hundredths of a watt.      *)
(***************************************************************************)
MaxMsgs == 3

DigitChars == <<"0", "1", "2", "3", "4", "5", "6", "7", "8", "9">>
Digits == {DigitChars[i] : i \in DOMAIN DigitChars}
DigitValue(c) == (CHOOSE i \in DOMAIN DigitChars : DigitChars[i] = c) - 1
WhiteSpace == {" ", "\n"}
\* The byte 0xFF, which no UTF-8 text contains.
BadByte == "FF"

\* b"12.5", b" 7 \n", b"-3", b"1e2", b".5", b"abc", b"1 2", b"", b"\xff",
\* b"7\xff".  None is one of the literals nan, inf and infinity, which float()
\* accepts as well, and none holds an underscore.
Payloads ==
    { <<"1", "2", ".", "5">>, <<" ", "7", " ", "\n">>, <<"-", "3">>,
      <<"1", "e", "2">>, <<".", "5">>, <<"a", "b", "c">>, <<"1", " ", "2">>,
      <<>>, <<BadByte>>, <<"7", BadByte>> }

\* What the registered callback does when it is called.
CallbackOutcomes == {"returns", "raises", "raises_value_error"}

\* msg.payload.decode('utf-8') raises UnicodeDecodeError
DecodeRaises(p) == \E i \in DOMAIN p : p[i] = BadByte

RECURSIVE LStrip(_)
LStrip(s) == IF s # <<>> /\ Head(s) \in WhiteSpace THEN LStrip(Tail(s)) ELSE s

RECURSIVE RStrip(_)
RStrip(s) ==
    IF s # <<>> /\ s[Len(s)] \in WhiteSpace
    THEN RStrip(SubSeq(s, 1, Len(s) - 1)) ELSE s

\* str.strip()
Strip(s) == RStrip(LStrip(s))

IsDigits(s) == \A i \in DOMAIN s : s[i] \in Digits

RECURSIVE Number(_)
Number(s) ==
    IF s = <<>> THEN 0
    ELSE Number(SubSeq(s, 1, Len(s) - 1)) * 10 + DigitValue(s[Len(s)])

RECURSIVE Pow10(_)
Pow10(n) == IF n = 0 THEN 1 ELSE 10 * Pow10(n - 1)

\* The first position of s that holds one of cs, 0 if there is none.
FirstOf(s, cs) ==
    IF \E i \in DOMAIN s : s[i] \in cs
    THEN CHOOSE i \in DOMAIN s : s[i] \in cs /\ \A j \in 1..(i - 1) : s[j] \notin cs
    ELSE 0

Unsigned(s) == IF s # <<>> /\ s[1] \in {"+", "-"} THEN Tail(s) ELSE s
Negative(s) == s # <<>> /\ s[1] = "-"

\* float(message) on a stripped text: [sign] digits [. digits] [e [sign]
\* digits] with a digit before or after the point; anything else raises
\* ValueError.  The value is in hundredths, exact for every text of Payloads.
Float(s) ==
    LET body == Unsigned(s)
        e == FirstOf(body, {"e", "E"})
        mant == IF e = 0 THEN body ELSE SubSeq(body, 1, e - 1)
        expo == IF e = 0 THEN <<>> ELSE SubSeq(body, e + 1, Len(body))
        dot == FirstOf(mant, {"."})
        ip == IF dot = 0 THEN mant ELSE SubSeq(mant, 1, dot - 1)
        fp == IF dot = 0 THEN <<>> ELSE SubSeq(mant, dot + 1, Len(mant))
        ed == Unsigned(expo)
        okMant == IsDigits(ip) /\ IsDigits(fp) /\ Len(ip) + Len(fp) > 0
        okExp == e = 0 \/ (ed # <<>> /\ IsDigits(ed))
        shift == (IF Negative(expo) THEN -Number(ed) ELSE Number(ed)) + 2 - Len(fp)
        m == Number(ip \o fp)
        mag == IF shift >= 0 THEN m * Pow10(shift) ELSE m \div Pow10(-shift)
    IN  IF okMant /\ okExp
        THEN [ok |-> TRUE, value |-> IF Negative(s) THEN -mag ELSE mag]
        ELSE [ok |-> FALSE, value |-> 0]

NoPower == [set |-> FALSE, v |-> 0]
Power(v) == [set |-> TRUE, v |-> v]

MqttState == [power |-> current_power, updated |-> last_updated,
              callback |-> power_callback]

\* The time datetime.now() gives while the n-th message is handled.
MsgTime(n) == n

\* A payload that could not be parsed wiping the last value.
AfterParseErrorCleared(st) == [st EXCEPT !.power = NoPower, !.updated = None]

\* except ValueError: self.logger.warning(...)
AfterParseError(st) == st

\* The callback called before the new sample is assigned.
SeenByCallbackStale(before, after) == before

\* self.current_power = ...; self.last_updated = ...; then
\* self.power_callback(power_value): what the callback can read.
SeenByCallback(before, after) == after

\* _on_message: the state it leaves, the calls it made to the callback, and
\* whether an exception left it.
\*   decode_error: decode raises UnicodeDecodeError, a ValueError; the handler
\*                 of ValueError formats `message`, which was never assigned,
\*                 and that raises UnboundLocalError out of _on_message.
\*   parse_error:  float raises ValueError, which is logged.
\*   ok:           the sample is assigned, then the callback, if set, is
\*                 called; whatever it raises is caught and logged.
OnMessage(st, payload, time) ==
    IF DecodeRaises(payload)
    THEN [st |-> st, kind |-> "decode_error", escaped |-> TRUE, calls |-> <<>>]
    ELSE LET f == Float(Strip(payload)) IN
         IF ~f.ok
         THEN [st |-> AfterParseError(st), kind |-> "parse_error", escaped |-> FALSE,
               calls |-> <<>>]
         ELSE LET new == [st EXCEPT !.power = Power(f.value), !.updated = time] IN
              [st |-> new, kind |-> "ok", escaped |-> FALSE,
               calls |-> IF st.callback
                         THEN << [value |-> f.value,
                                  power |-> SeenByCallback(st, new).power,
                                  updated |-> SeenByCallback(st, new).updated] >>
                         ELSE <<>>]

NoMessage == [kind |-> "none", escaped |-> FALSE, ncalls |-> 0, cbOut |-> "returns",
              hadCallback |-> FALSE, powerBefore |-> NoPower, updatedBefore |-> None]

\* What the last connection event was, and is_connected before it.
NoEvent == [kind |-> "none", rc |-> 0, before |-> FALSE]

\* __init__: no value, no callback, not connected.
InitMqtt ==
    /\ current_power = NoPower
    /\ last_updated = None
    /\ power_callback = FALSE
    /\ delivered = 0
    /\ cbLog = <<>>
    /\ accepted = <<>>
    /\ mqttLast = NoMessage
    /\ is_connected = FALSE
    /\ mqttEvent = NoEvent

notMqtt == <<commonVars, clientVars, resVars, sampleVars, cacheVars, newVars, sinkVars,
             schedVars, sunVars, raceVars, lastPoint>>

set_power_callback ==
    /\ ~power_callback
    /\ power_callback' = TRUE
    /\ UNCHANGED <<current_power, last_updated, delivered, cbLog, accepted, mqttLast,
                   is_connected, mqttEvent, notMqtt>>

\* The network loop delivers the next message to _on_message.
on_message ==
    /\ delivered < MaxMsgs
    /\ \E payload \in Payloads, cbOut \in CallbackOutcomes :
         LET time == MsgTime(delivered + 1)
             r == OnMessage(MqttState, payload, time)
             f == Float(Strip(payload))
         IN /\ current_power' = r.st.power
            /\ last_updated' = r.st.updated
            /\ cbLog' = cbLog \o r.calls
            /\ accepted' = IF ~DecodeRaises(payload) /\ f.ok /\ power_callback
                           THEN Append(accepted, [value |-> f.value, time |-> time])
                           ELSE accepted
            /\ mqttLast' = [kind |-> r.kind, escaped |-> r.escaped,
                            ncalls |-> Len(r.calls),
                            cbOut |-> IF r.calls = <<>> THEN "returns" ELSE cbOut,
                            hadCallback |-> power_callback,
                            powerBefore |-> current_power,
                            updatedBefore |-> last_updated]
    /\ delivered' = delivered + 1
    /\ UNCHANGED <<power_callback, is_connected, mqttEvent, notMqtt>>

\* The return codes of a CONNACK and of a disconnection: 0, and 5 for the
\* refused or unexpected ones.
ReturnCodes == {0, 5}

\* The other fields of the client, which the connection events leave alone.
msgVars == <<current_power, last_updated, power_callback, delivered, cbLog, accepted,
              mqttLast>>

\* connect(): client.connect(...) and loop_start(), returning True, or False
\* when one of them raises; in the event rc = 0 stands for True.
connect ==
    \E rc \in ReturnCodes :
      /\ mqttEvent' = [kind |-> "connect", rc |-> rc, before |-> is_connected]
      /\ UNCHANGED <<is_connected, msgVars, notMqtt>>

\* disconnect(): loop_stop(), client.disconnect(), self.is_connected = False
disconnect ==
    /\ is_connected' = FALSE
    /\ mqttEvent' = [kind |-> "disconnect", rc |-> 0, before |-> is_connected]
    /\ UNCHANGED <<msgVars, notMqtt>>

\* _on_connect: if rc == 0: self.is_connected = True; else: an error is logged
on_connect ==
    \E rc \in ReturnCodes :
      /\ is_connected' = IF rc = 0 THEN TRUE ELSE is_connected
      /\ mqttEvent' = [kind |-> "on_connect", rc |-> rc, before |-> is_connected]
      /\ UNCHANGED <<msgVars, notMqtt>>

\* _on_disconnect: self.is_connected = False, whatever rc
mqtt_on_disconnect ==
    \E rc \in ReturnCodes :
      /\ is_connected' = FALSE
      /\ mqttEvent' = [kind |-> "on_disconnect", rc |-> rc, before |-> is_connected]
      /\ UNCHANGED <<msgVars, notMqtt>>

(***************************************************************************)
(* solar_edge: is_sun_up and calculate_solar_update_interval.  Times are   *)
(* minutes of the current local day.  usage_percent is held in hundredths  *)
(* (0.9 is 90); a quotient of two numbers is held as the pair of them.     *)
(***************************************************************************)
MinInterval == 5
FallbackInterval == 10
FallbackFirstHour == 6
FallbackLastHour == 20

\* sun() for today: sunrise and sunset, or an exception; and datetime.now().
Sunrises == {270, 420}
DaylightMinutes == {0, 269, 360, 600, 720, 1080}
NowOffsets == {-1, 0, 1}
SunInputs ==
    UNION {{[raises |-> fails, sunrise |-> rise, sunset |-> rise + len,
             now |-> at + off] :
               fails \in BOOLEAN, at \in {rise, rise + len}, off \in NowOffsets} :
           rise \in Sunrises, len \in DaylightMinutes}
MaxDailyCalls == {0, 1, 50, 300, 500}
UsagePercents == {0, 80, 90, 100}
Budgets == {[max_daily_calls |-> c, usage_percent |-> u] :
               c \in MaxDailyCalls, u \in UsagePercents}

\* sunrise < now < sunset
BetweenExclusive(lo, x, hi) == lo < x /\ x < hi

\* sunrise <= now <= sunset
Between(lo, x, hi) == lo <= x /\ x <= hi

\* is_sun_up(): the comparison, or after any exception 6 <= hour <= 20.
is_sun_up(s) ==
    IF s.raises
    THEN Between(FallbackFirstHour, s.now \div 60, FallbackLastHour)
    ELSE Between(s.sunrise, s.now, s.sunset)

\* allowed_calls = int(max_daily_calls * usage_percent)
AllowedCalls(b) == (b.max_daily_calls * b.usage_percent) \div 100

\* The interval left as computed.
ClampedNot(q) == q

\* interval_minutes = max(5, interval_minutes)
Clamped(q) == IF q.num > MinInterval * q.den THEN q
                                              ELSE [num |-> MinInterval, den |-> 1]

\* int(interval_minutes), of a quotient that is not negative
IntPart(q) == q.num \div q.den

\* The exception leaves the function.
OnIntervalErrorRaise(s) == [raised |-> TRUE, value |-> None]

\* except Exception as e: ... return 10
OnIntervalError(s) == [raised |-> FALSE, value |-> FallbackInterval]

\* calculate_solar_update_interval(max_daily_calls, usage_percent): sun()
\* raising, or the division by allowed_calls = 0, ends in the except clause.
calculate_solar_update_interval(s, b) ==
    IF s.raises \/ AllowedCalls(b) = 0
    THEN OnIntervalError(s)
    ELSE [raised |-> FALSE,
          value |-> IntPart(Clamped([num |-> s.sunset - s.sunrise,
                                 den |-> AllowedCalls(b)]))]

NoSolarCall == [op |-> "none", raised |-> FALSE, value |-> None]

\* Neither function has been called; the inputs are the ones of the tests
\* test_sun_at_sunrise and test_calculate_interval_low_api_limit.
InitSolarIdle ==
    /\ sunIn = [raises |-> FALSE, sunrise |-> 270, sunset |-> 870, now |-> 270]
    /\ budgetIn = [max_daily_calls |-> 50, usage_percent |-> 90]
    /\ solarRet = NoSolarCall

InitSolarInputs ==
    /\ sunIn \in SunInputs
    /\ budgetIn \in Budgets
    /\ solarRet = NoSolarCall

notSun == <<commonVars, clientVars, resVars, sampleVars, cacheVars, newVars, sinkVars,
            mqttVars, schedVars, raceVars, lastPoint>>

CallIsSunUp ==
    /\ solarRet' = [op |-> "is_sun_up", raised |-> FALSE, value |-> is_sun_up(sunIn)]
    /\ UNCHANGED <<sunIn, budgetIn, notSun>>

CallCalculateInterval ==
    /\ solarRet' = [op |-> "interval"] @@ calculate_solar_update_interval(sunIn, budgetIn)
    /\ UNCHANGED <<sunIn, budgetIn, notSun>>

(***************************************************************************)
(* SpotPriceDashboard: the background loop.  Times are minutes counted     *)
(* from midnight of day 0, the dashboard being started in day 1;           *)
(* a price is in hundredths of SEK/kWh, a solar power in milliwatts.       *)
(***************************************************************************)
MaxSchedElapsed == 6

\* When the dashboard is started: at 00:12 or at 23:56 of day 1.
StartMinutes == {1452, 2876}

\* The start that a time belongs to.
StartOf(time) == CHOOSE s \in StartMinutes :
                    s <= time /\ \A o \in StartMinutes : o <= time => o <= s
MaxClients == 2
MaxTasks == 2

\* A day followed minute by minute: from 06:00 of day 2, for MaxDayElapsed
\* minutes.
DayStart == 3240
MaxDayElapsed == 302

\* How far the model follows the clock from the given time.
Until(time) == IF time >= DayStart THEN DayStart + MaxDayElapsed
                                   ELSE StartOf(time) + MaxSchedElapsed

\* calculate_solar_update_interval(max_daily_calls: int = 300, ...)
DailyCallBudget == 300

\* self.solar_update_interval: int = 10
DefaultSolarInterval == 10
\* What calculate_solar_update_interval() can return.
SolarIntervals == {5}
\* Minutes between two iterations: asyncio.sleep(60) and whatever delays it.
SleepMinutes == {1, 3}
\* What the collaborator of a fetch does: returns a value, returns None, raises.
FetchOutcomes == {"value", "absent", "raise"}
SpotPrices == {85}
SolarReadings == {2300456}

\* datetime: .hour, .minute, .date()
Hour(m) == (m \div 60) % 24
Minute(m) == m % 60
Date(m) == m \div 1440

\* The count of the calls of get_current_power_production made on one
\* date; NotCounted where no count is kept.
NotCounted == [date |-> None, n |-> 0]
Counted(c, time, k) ==
    IF c = NotCounted THEN NotCounted
    ELSE [date |-> Date(time), n |-> (IF c.date = Date(time) THEN c.n ELSE 0) + k]

\* The half hour of a minute.
HalfHour(minute) == minute \div 30

\* now.minute // 15
Quarter(minute) == minute \div 15

\* if self.last_price_update is None: fetch; else
\* if current_quarter != last_quarter or now.hour != self.last_price_update.hour
PriceDue(time, last) ==
    \/ last = None
    \/ Quarter(Minute(time)) # Quarter(Minute(last))
    \/ Hour(time) # Hour(last)

\* The solar fetch gated on availability and daylight only.
SolarGateWithoutClients(available, has_clients, sun_up) == available /\ sun_up

\* if self.solar_available and has_clients and is_sun_up()
SolarGate(available, has_clients, sun_up) == available /\ has_clients /\ sun_up

\* The solar fetch due at every iteration.
SolarDueAlways(time, last, interval) == TRUE

\* if self.last_solar_update is None: fetch; else
\* if minutes_since_update >= self.solar_update_interval
SolarDue(time, last, interval) == last = None \/ time - last >= interval

\* DataManager.update_spot_price and update_solar_production: the value goes
\* into the cache under _data_cache_lock; sinkWrites is the number of calls
\* of _write_to_influxdb the method makes.
update_spot_price(cached, price) == [cached |-> price, sinkWrites |-> 0]
update_solar_production(cached, production) ==
    [cached |-> production, sinkWrites |-> 0]

\* DataManager.update_spot_price(price) called by the thread of the event
\* loop: with self._data_cache_lock: self._latest_spot_price = price
CallUpdateSpotPrice(price) ==
    /\ CanAcquire(data_cache_lock)
    /\ latest_spot_price' = update_spot_price(latest_spot_price, price).cached
    /\ UNCHANGED <<commonVars, clientVars, resVars, sampleVars, latest_solar_production,
                   data_cache_lock, wloc, newVars, sinkVars, appVars>>

\* DataManager.update_solar_production(production), likewise.
CallUpdateSolarProduction(production) ==
    /\ CanAcquire(data_cache_lock)
    /\ latest_solar_production' =
          update_solar_production(latest_solar_production, production).cached
    /\ UNCHANGED <<commonVars, clientVars, resVars, sampleVars, latest_spot_price,
                   data_cache_lock, wloc, newVars, sinkVars, appVars>>

\* What the dashboard and the DataManager hold about the spot price.
PriceState == [current |-> current_price, last |-> last_price_update,
               cached |-> latest_spot_price]

\* fetch_spot_price at the given time.
FetchSpotPrice(s, time, out, price) ==
    CASE out = "value" -> [current |-> price, last |-> time,
                           cached |-> update_spot_price(s.cached, price).cached]
      [] out = "absent" -> [s EXCEPT !.current = None, !.last = time]
      [] OTHER -> s

\* What the dashboard and the DataManager hold about the solar production.
SolarState == [current |-> current_solar_power, last |-> last_solar_update,
               cached |-> latest_solar_production]

\* fetch_solar_power at the given time, solar being available.
FetchSolarPower(s, time, out, power) ==
    IF out = "value"
    THEN [current |-> Round2(power), last |-> time,
          cached |-> update_solar_production(s.cached, Round2(power)).cached]
    ELSE s

\* The calls of _write_to_influxdb an iteration makes: those of the
\* DataManager methods the successful fetches call.
SinkWritesOf(solarOut, priceOut) ==
    (IF solarOut = "value" THEN update_solar_production(None, None).sinkWrites ELSE 0)
    + (IF priceOut = "value" THEN update_spot_price(None, None).sinkWrites ELSE 0)

\* What an iteration did, for the properties: what has_connected_clients()
\* and is_sun_up() returned, the fetches issued and what their collaborators
\* did ("none" without a fetch), the calls of _write_to_influxdb made, and
\* last_price_update and last_solar_update as the iteration found them, and
\* whether a price (solar) fetch that got nothing left the price (the solar
\* production) of the dashboard and of the DataManager as it found them.  It
\* is kept until the next step of the dashboard, but for nth: how many
\* iterations there have been since __init__, counted up to 2.
NoIteration == [ticked |-> FALSE, hasClients |-> FALSE, sunUp |-> FALSE,
                solarFetches |-> 0, priceFetches |-> 0,
                solarOut |-> "none", priceOut |-> "none", sinkWrites |-> 0,
                lastPriceBefore |-> None, lastSolarBefore |-> None,
                priceKept |-> TRUE, solarKept |-> TRUE, nth |-> 0]

\* loop.create_task(self.background_update_loop()): a task with its local
\* last_interval_update = None, about to sleep; `by` is who started it, and
\* slept becomes true once its sleep of a minute is over.
NewTask(by) == [by |-> by, last_interval_update |-> None, slept |-> FALSE]

\* start_background_updates: a new task at every call.
start_background_updates(ts, by) == ts (+) SetToBag({NewTask(by)})

\* The handlers app.on_disconnect has registered: one for every page served.
Handlers(ts) ==
    BagCardinality([k \in {o \in BagToSet(ts) : o.by = "page"} |-> ts[k]])

\* decrement_clients called k times.
RECURSIVE DecrementedTimes(_, _)
DecrementedTimes(v, k) == IF k = 0 THEN v ELSE DecrementedTimes(Decremented(v), k - 1)

\* __init__ leaving the time of its own fetch in place.
LastUpdateAfterInitKept(fetched) == fetched

\* __init__, after its fetches: self.last_price_update = None and
\* self.last_solar_update = None
LastUpdateAfterInit(fetched) == None

\* The dashboard's fields before the fetches of __init__.
Unfetched == [current |-> None, last |-> None, cached |-> None]

\* SpotPriceDashboard.__init__ has returned: fetch_spot_price and, when
\* SolarEdge is configured, fetch_solar_power have run and left their
\* values, and last_price_update and last_solar_update were assigned after
\* them.  The task it created exists on the event loop the server runs, or
\* on one that is never run.
InitDashboard ==
    /\ clock \in StartMinutes
    /\ solar_available \in BOOLEAN
    /\ \E priceOut \in FetchOutcomes, price \in SpotPrices :
         LET p == FetchSpotPrice(Unfetched, clock, priceOut, price) IN
         /\ current_price = p.current
         /\ last_price_update = LastUpdateAfterInit(p.last)
    /\ \E solarOut \in FetchOutcomes, power \in SolarReadings :
         LET s == IF solar_available
                  THEN FetchSolarPower(Unfetched, clock, solarOut, power)
                  ELSE Unfetched
         IN /\ current_solar_power = s.current
            /\ last_solar_update = LastUpdateAfterInit(s.last)
    /\ solar_update_interval \in
         IF solar_available THEN SolarIntervals ELSE {DefaultSolarInterval}
    /\ tasks \in {EmptyBag, start_background_updates(EmptyBag, "init")}
    /\ schedLast = NoIteration

notSched == <<commonVars, resVars, sampleVars, newVars, sinkVars, mqttVars, sunVars,
              raceVars, lastPoint>>

\* One iteration of background_update_loop in one of the tasks: the sleep,
\* then the body, which has no await and so runs without another task in
\* between.
background_update_loop(task) ==
    \E dt \in SleepMinutes \cup (IF task.slept THEN {0} ELSE {}),
       sun_up \in IF solar_available THEN BOOLEAN ELSE {FALSE} :
      LET time == clock + dt
          has_clients == connected_clients > 0
          last_interval_update == task.last_interval_update
          recalc == /\ \/ last_interval_update = None
                       \/ Date(time) # last_interval_update
                    /\ solar_available
      IN
      \E interval \in IF recalc THEN SolarIntervals ELSE {solar_update_interval} :
      LET solarDue == SolarDue(time, last_solar_update, interval)
          fetchSolar == /\ SolarGate(solar_available, has_clients, sun_up)
                        /\ solarDue
          fetchPrice == PriceDue(time, last_price_update)
      IN
      \E solarOut \in IF fetchSolar THEN FetchOutcomes ELSE {"none"},
         priceOut \in IF fetchPrice THEN FetchOutcomes ELSE {"none"},
         price \in SpotPrices, power \in SolarReadings :
      LET s == IF fetchSolar THEN FetchSolarPower(SolarState, time, solarOut, power)
                             ELSE SolarState
          p == IF fetchPrice THEN FetchSpotPrice(PriceState, time, priceOut, price)
                             ELSE PriceState
      IN  /\ time <= Until(clock)
          /\ CanAcquire(clients_lock) /\ CanAcquire(data_cache_lock)
          /\ clock' = time
          /\ solar_update_interval' = interval
          /\ tasks' =
                BagOfAll(LAMBDA o : [o EXCEPT !.slept = @ \/ dt > 0],
                         tasks (-) SetToBag({task}))
                (+) SetToBag({[task EXCEPT
                                 !.last_interval_update =
                                    IF recalc THEN Date(time) ELSE @,
                                 !.slept = FALSE]})
          /\ current_solar_power' = s.current
          /\ last_solar_update' = s.last
          /\ latest_solar_production' = s.cached
          /\ current_price' = p.current
          /\ last_price_update' = p.last
          /\ latest_spot_price' = p.cached
          /\ schedLast' = [ticked |-> TRUE, hasClients |-> has_clients,
                           sunUp |-> sun_up,
                           solarFetches |-> IF fetchSolar THEN 1 ELSE 0,
                           priceFetches |-> IF fetchPrice THEN 1 ELSE 0,
                           solarOut |-> solarOut, priceOut |-> priceOut,
                           sinkWrites |-> SinkWritesOf(solarOut, priceOut),
                           lastPriceBefore |-> last_price_update,
                           lastSolarBefore |-> last_solar_update,
                           priceKept |-> priceOut = "absent" =>
                                            /\ p.current = current_price
                                            /\ p.cached = latest_spot_price,
                           solarKept |-> solarOut = "absent" =>
                                            /\ s.current = current_solar_power
                                            /\ s.cached = latest_solar_production,
                           nth |-> IF schedLast.nth = 0 THEN 1 ELSE 2]
          /\ solar_calls' = Counted(solar_calls, time, IF fetchSolar THEN 1 ELSE 0)
          /\ UNCHANGED <<solar_available, sessions, clientVars, data_cache_lock,
                         wloc, notSched>>

\* index(): a page is served.  increment_clients, then build_ui, which ends
\* with start_background_updates, then app.on_disconnect(on_disconnect).
index ==
    /\ sessions < MaxClients
    /\ sessions' = sessions + 1
    /\ BagCardinality(tasks) < MaxTasks
    /\ CanAcquire(clients_lock)
    /\ connected_clients' = Incremented(connected_clients)
    /\ tasks' = start_background_updates(tasks, "page")
    /\ schedLast' = [NoIteration EXCEPT !.nth = schedLast.nth]
    /\ UNCHANGED <<clients_lock, tmp, cret, nInc, nDec, cacheVars, clock, solar_calls,
                   last_price_update, last_solar_update, solar_available,
                   solar_update_interval, current_price, current_solar_power,
                   notSched>>

\* A client disconnects: every handler registered with app.on_disconnect
\* runs, and each calls decrement_clients.
on_disconnect ==
    /\ sessions > 0
    /\ sessions' = sessions - 1
    /\ CanAcquire(clients_lock)
    /\ connected_clients' = DecrementedTimes(connected_clients, Handlers(tasks))
    /\ schedLast' = [NoIteration EXCEPT !.nth = schedLast.nth]
    /\ UNCHANGED <<clients_lock, tmp, cret, nInc, nDec, cacheVars, clock, solar_calls,
                   last_price_update, last_solar_update, solar_available,
                   solar_update_interval, tasks, current_price,
                   current_solar_power, notSched>>

(***************************************************************************)
(* DataManager: singleton construction.  DataManager() runs __new__ and,   *)
(* on the object it returns, __init__.                                     *)
(***************************************************************************)
\* The state once the module-level DataManager() has returned.
InitConstructed ==
    /\ instance = 1
    /\ cls_lock = 0
    /\ created = 1
    /\ hasInitAttr = {1}
    /\ initialized = {1}
    /\ self = [t \in Threads |-> None]
    /\ nres = [t \in Threads |-> "none"]

\* The class as defined, before any DataManager() call.
InitClass ==
    /\ instance = None
    /\ cls_lock = 0
    /\ created = 0
    /\ hasInitAttr = {}
    /\ initialized = {}
    /\ self = [t \in Threads |-> None]
    /\ nres = [t \in Threads |-> "none"]

notNew == <<clientVars, resVars, sampleVars, cacheVars, sinkVars, appVars>>

\* __new__: if cls._instance is None (the unlocked check)
DataManagerCall(t) ==
    /\ CanCall(t)
    /\ calls' = calls + 1
    /\ nres' = [nres EXCEPT ![t] = "none"]
    /\ self' = [self EXCEPT ![t] = None]
    /\ Goto(t, IF instance = None THEN "new_lock" ELSE "new_return")
    /\ UNCHANGED <<instance, cls_lock, created, hasInitAttr, initialized, notNew>>

\* with cls._lock:
NewLock(t) ==
    /\ pc[t] = "new_lock"
    /\ CanAcquire(cls_lock)
    /\ cls_lock' = t
    /\ Goto(t, "new_check")
    /\ UNCHANGED <<calls, instance, created, hasInitAttr, initialized, self, nres, notNew>>

\* if cls._instance is None (the locked check)
NewCheck(t) ==
    /\ pc[t] = "new_check"
    /\ Goto(t, IF instance = None THEN "new_create" ELSE "new_unlock")
    /\ UNCHANGED <<calls, newVars, notNew>>

\* cls._instance = super().__new__(cls)
NewCreate(t) ==
    /\ pc[t] = "new_create"
    /\ created' = created + 1
    /\ instance' = created + 1
    /\ Goto(t, "new_flag")
    /\ UNCHANGED <<calls, cls_lock, hasInitAttr, initialized, self, nres, notNew>>

\* cls._instance._initialized = False
NewFlag(t) ==
    /\ pc[t] = "new_flag"
    /\ hasInitAttr' = hasInitAttr \cup {instance}
    /\ initialized' = initialized \ {instance}
    /\ Goto(t, "new_unlock")
    /\ UNCHANGED <<calls, instance, cls_lock, created, self, nres, notNew>>

\* The with block ends.
NewUnlock(t) ==
    /\ pc[t] = "new_unlock"
    /\ cls_lock' = 0
    /\ Goto(t, "new_return")
    /\ UNCHANGED <<calls, instance, created, hasInitAttr, initialized, self, nres, notNew>>

\* return cls._instance
NewReturn(t) ==
    /\ pc[t] = "new_return"
    /\ self' = [self EXCEPT ![t] = instance]
    /\ Goto(t, "init_check")
    /\ UNCHANGED <<calls, instance, cls_lock, created, hasInitAttr, initialized, nres,
                   notNew>>

\* __init__: if self._initialized: return.  Reading the attribute of an
\* object that has none raises AttributeError out of DataManager().
InitCheck(t) ==
    /\ pc[t] = "init_check"
    /\ IF self[t] \notin hasInitAttr
       THEN /\ nres' = [nres EXCEPT ![t] = "raised"]
            /\ Goto(t, "idle")
       ELSE IF self[t] \in initialized
       THEN /\ nres' = [nres EXCEPT ![t] = "returned"]
            /\ Goto(t, "idle")
       ELSE /\ Goto(t, "init_body")
            /\ UNCHANGED nres
    /\ UNCHANGED <<calls, instance, cls_lock, created, hasInitAttr, initialized, self,
                   notNew>>

\* __init__: the fields and their locks are assigned.
InitBody(t) ==
    /\ pc[t] = "init_body"
    /\ handle' = [k \in Kinds |-> None]
    /\ res_lock' = [k \in Kinds |-> 0]
    /\ latest' = None
    /\ power_data_lock' = 0
    /\ latest_spot_price' = None
    /\ latest_solar_production' = None
    /\ data_cache_lock' = 0
    /\ connected_clients' = 0
    /\ clients_lock' = 0
    /\ Goto(t, "init_flag")
    /\ UNCHANGED <<calls, newVars, sinkVars, tmp, cret, nInc, nDec, rret, ctorCalls,
                   ctorOk, bodyRuns, heap, args, held, snap, lastUpdate, seen, wloc,
                   appVars>>

\* self._initialized = True, and DataManager() returns the object.
InitFlag(t) ==
    /\ pc[t] = "init_flag"
    /\ initialized' = initialized \cup {self[t]}
    /\ nres' = [nres EXCEPT ![t] = "returned"]
    /\ Goto(t, "idle")
    /\ UNCHANGED <<calls, instance, cls_lock, created, hasInitAttr, self, notNew>>

\* The step the thread is about to take calls out to the network: the
\* constructor of the sink, or write_power_data.
OutboundCall(t) ==
    \/ pc[t] = "create_ctor" /\ CtorConnects(rret[t].kind)
    \/ pc[t] = "w_write"

\* The locks of the DataManager a thread holds.
LocksHeld(t) ==
    {<<"res", k>> : k \in {j \in Kinds : res_lock[j] = t}}
    \cup (IF power_data_lock = t THEN {<<"power_data">>} ELSE {})
    \cup (IF data_cache_lock = t THEN {<<"data_cache">>} ELSE {})
    \cup (IF clients_lock = t THEN {<<"clients">>} ELSE {})

(***************************************************************************)
(* Specifications                                                          *)
(***************************************************************************)
InitCommon ==
    /\ pc = [t \in Threads |-> "idle"]
    /\ calls = 0
    /\ InitMqtt
    /\ InitDashboard /\ ~solar_available /\ current_price = None
    /\ tasks = EmptyBag /\ \A s \in StartMinutes : clock <= s
    /\ solar_calls = NotCounted /\ sessions = 0
    /\ InitSolarIdle
    /\ InitRace

\* No resource handle created yet.
InitNoHandles ==
    /\ handle = [k \in Kinds |-> None]
    /\ ctorOk = [k \in Kinds |-> 0]

\* The sink as create_influxdb_client left it at startup, or none.
InitHandles ==
    \E h \in {None, 1} :
      /\ handle = [k \in Kinds |-> IF k = "influxdb" THEN h ELSE None]
      /\ ctorOk = [k \in Kinds |-> IF k = "influxdb" /\ h # None THEN 1 ELSE 0]

\* Threads calling increment_clients, decrement_clients and get_client_count.
InitClientsSpec ==
    /\ InitCommon /\ InitClients /\ InitRes /\ InitNoHandles /\ InitSample
    /\ InitCache /\ InitConstructed /\ InitSink /\ sinkHost /\ sinkAuth
    /\ ~sinkConnected /\ ~sinkClient

NextClients ==
    \E t \in Threads :
      \/ increment_clients(t)
      \/ decrement_clients(t)
      \/ get_client_count(t)
      \/ ClientsLoad(t)
      \/ ClientsStore(t)
      \/ ClientsCopy(t)
      \/ ClientsReturn(t)

SpecClients == InitClientsSpec /\ [][NextClients]_vars

\* Threads calling create_mqtt_client, create_influxdb_client and the getters.
InitResSpec == InitClientsSpec

NextRes ==
    \E t \in Threads :
      \/ \E k \in Kinds : create_client(t, k)
      \/ \E k \in Kinds : get_client(t, k)
      \/ CreateCheck(t)
      \/ CreateCtor(t)
      \/ ResRead(t)
      \/ ResRelease(t)

SpecRes == InitResSpec /\ [][NextRes]_vars

\* Threads calling update_power_data and get_latest_power_data, and callers
\* assigning to the dicts they were given.
InitPowerSpec ==
    /\ InitCommon /\ InitClients /\ InitRes /\ InitHandles /\ InitSample
    /\ InitCache /\ InitConstructed /\ InitSink /\ sinkHost /\ sinkAuth

NextPower ==
    \E t \in Threads :
      \/ \E p \in PowerInputs, ts \in Timestamps : update_power_data(t, p, ts)
      \/ UpdateStore(t)
      \/ WriteGetClient(t)
      \/ WriteCheckConnected(t)
      \/ WriteReadCache(t)
      \/ WriteThrough(t)
      \/ get_latest_power_data(t)
      \/ GetPowerCopy(t)
      \/ MutateReturned(t)

SpecPower == InitPowerSpec /\ [][NextPower]_vars

\* Threads calling DataManager() before any instance exists.
InitNewSpec ==
    /\ InitCommon /\ InitClients /\ InitRes /\ InitNoHandles /\ InitSample
    /\ InitCache /\ InitClass /\ InitSink /\ sinkHost /\ sinkAuth /\ ~sinkConnected
    /\ ~sinkClient

NextNew ==
    \E t \in Threads :
      \/ DataManagerCall(t)
      \/ NewLock(t)
      \/ NewCheck(t)
      \/ NewCreate(t)
      \/ NewFlag(t)
      \/ NewUnlock(t)
      \/ NewReturn(t)
      \/ InitCheck(t)
      \/ InitBody(t)
      \/ InitFlag(t)

SpecNew == InitNewSpec /\ [][NextNew]_vars

\* Threads making the first DataManager() calls, each using the object as
\* soon as its own call has returned.
InitFirstCallsSpec == InitNewSpec

NextFirstCalls ==
    \/ NextNew
    \/ \E t \in Threads :
         \/ nres[t] = "returned" /\ increment_clients(t)
         \/ ClientsLoad(t)
         \/ ClientsStore(t)
         \/ ClientsCopy(t)
         \/ ClientsReturn(t)

SpecFirstCalls == InitFirstCallsSpec /\ [][NextFirstCalls]_vars

\* One caller of the sink's methods while the clock advances; the handle is
\* the object the constructor returned, if it returned one.
InitSinkSpec ==
    /\ InitCommon /\ InitClients /\ InitRes /\ InitHandles
    /\ InitSample /\ InitCache /\ InitConstructed /\ InitSink
    /\ (handle["influxdb"] # None) <=> sinkMade

NextSink ==
    \/ Tick
    \/ SinkEnsureConnection
    \/ SinkWritePowerData
    \/ SinkClose

SpecSink == InitSinkSpec /\ [][NextSink]_vars

\* The network loop delivering samples to power_update_callback for ever,
\* while the clock advances.  The sink was created at startup.
InitRecover ==
    /\ InitCommon /\ InitClients /\ InitRes /\ InitHandles /\ handle["influxdb"] # None
    /\ InitSample /\ InitCache /\ InitConstructed /\ InitSink /\ sinkHost /\ sinkAuth

\* The steps of the network loop's thread.
RecoverThread ==
    \/ \E p \in PowerInputs, ts \in Timestamps : power_update_callback(MqttThread, p, ts)
    \/ UpdateStore(MqttThread)
    \/ WriteGetClient(MqttThread)
    \/ WriteCheckConnected(MqttThread)
    \/ WriteReadCache(MqttThread)
    \/ WriteThrough(MqttThread)

NextRecover == Tick \/ RecoverThread

\* Samples keep arriving and are handled (weak fairness of the thread), and
\* the store is reachable again: of the write_power_data calls made again and
\* again, one meets a store that accepts the connection and the write.
SpecRecover ==
    /\ InitRecover /\ [][NextRecover]_vars
    /\ WF_vars(RecoverThread)
    /\ SF_vars(WriteThroughWith(MqttThread, "pass", "ok"))

\* The network loop's thread calling update_power_data, the sink there and
\* connected, while the event loop's thread updates the spot price and the
\* solar production; every point handed to the write API is recorded.
InitPointSpec ==
    /\ InitCommon /\ InitClients /\ InitRes /\ InitHandles /\ handle["influxdb"] # None
    /\ InitSample /\ InitConstructed /\ InitSink /\ sinkHost /\ sinkAuth
    /\ sinkConnected
    /\ latest_spot_price = None /\ latest_solar_production = None
    /\ data_cache_lock = 0 /\ wloc = [t \in Threads |-> NoLocals]
    /\ lastPoint = NoPoint

NextPoint ==
    \/ RecoverThread
    \/ \E price \in SpotPrices : CallUpdateSpotPrice(price)
    \/ \E p \in SolarReadings : CallUpdateSolarProduction(Round2(p))

SpecPoint == InitPointSpec /\ [][NextPoint]_vars

\* Several threads calling update_power_data at once, the points recorded.
NextOrder ==
    \E t \in Threads :
      \/ \E p \in PowerInputs, ts \in Timestamps : update_power_data(t, p, ts)
      \/ UpdateStore(t)
      \/ WriteGetClient(t)
      \/ WriteCheckConnected(t)
      \/ WriteReadCache(t)
      \/ WriteThrough(t)

SpecOrder == InitPointSpec /\ [][NextOrder]_vars

\* The network loop delivering messages of any content to _on_message, and
\* the dashboard registering its callback.
InitMqttSpec == InitClientsSpec

NextMqtt ==
    \/ set_power_callback
    \/ on_message
    \/ connect
    \/ disconnect
    \/ on_connect
    \/ mqtt_on_disconnect

SpecMqtt == InitMqttSpec /\ [][NextMqtt]_vars

\* The background loop of the dashboard while pages are opened and closed.
InitSchedSpec ==
    /\ pc = [t \in Threads |-> "idle"] /\ calls = 0 /\ InitMqtt
    /\ InitDashboard /\ InitSolarIdle /\ InitRace
    /\ solar_calls = NotCounted /\ sessions = 0
    /\ InitClients /\ InitRes /\ InitNoHandles /\ InitSample /\ InitConstructed
    /\ InitSink /\ sinkHost /\ sinkAuth /\ ~sinkConnected /\ ~sinkClient
    /\ latest_spot_price = current_price
    /\ latest_solar_production = current_solar_power
    /\ data_cache_lock = 0
    /\ wloc = [t \in Threads |-> NoLocals]
    /\ lastPoint = NotRecorded

\* One browser session at a time and two tasks at most here; SpecPages has
\* up to MaxClients sessions and MaxTasks tasks.
NextSched ==
    \/ \E task \in BagToSet(tasks) : background_update_loop(task)
    \/ index /\ sessions' <= 1 /\ BagCardinality(tasks') <= 2
    \/ on_disconnect

SpecSched == InitSchedSpec /\ [][NextSched]_vars

\* The background loop from 06:00 of a day on, the solar API calls counted:
\* solar is configured, the task of the constructor is on a loop that never
\* runs, and one page is open, whose task is the only one.
InitBudgetSpec ==
    /\ pc = [t \in Threads |-> "idle"] /\ calls = 0 /\ InitMqtt
    /\ clock = DayStart
    /\ last_price_update = None /\ last_solar_update = None
    /\ solar_available = TRUE /\ solar_update_interval \in SolarIntervals
    /\ tasks = start_background_updates(EmptyBag, "page")
    /\ current_price \in SpotPrices
    /\ current_solar_power = None
    /\ schedLast = NoIteration
    /\ solar_calls = [date |-> Date(clock), n |-> 0] /\ sessions = 1
    /\ InitSolarIdle /\ InitRace
    /\ connected_clients = 1 /\ clients_lock = 0
    /\ tmp = [t \in Threads |-> 0] /\ cret = [t \in Threads |-> NoCount]
    /\ nInc = 0 /\ nDec = 0
    /\ InitRes /\ InitNoHandles /\ InitSample /\ InitConstructed
    /\ InitSink /\ sinkHost /\ sinkAuth /\ ~sinkConnected /\ ~sinkClient
    /\ latest_spot_price = current_price
    /\ latest_solar_production = current_solar_power
    /\ data_cache_lock = 0
    /\ wloc = [t \in Threads |-> NoLocals]
    /\ lastPoint = NotRecorded

\* The surroundings of that day: the loop wakes every minute, the price API
\* answers, and the solar API returns nothing or fails whenever it is called.
SolarApiDown ==
    /\ clock' = clock + 1
    /\ schedLast'.priceOut \in {"none", "value"}
    /\ schedLast'.solarOut \in {"none", "absent", "raise"}

NextBudget ==
    \E task \in BagToSet(tasks) : background_update_loop(task) /\ SolarApiDown

SpecBudget == InitBudgetSpec /\ [][NextBudget]_vars

\* Pages opened and closed by up to MaxClients browsers while the loop wakes
\* every minute with the solar API down.
NextPages ==
    \/ \E task \in BagToSet(tasks) : background_update_loop(task) /\ SolarApiDown
    \/ index
    \/ on_disconnect

SpecPages == InitSchedSpec /\ [][NextPages]_vars

\* is_sun_up and calculate_solar_update_interval called on any sun times
\* and any budget.
InitSolarSpec ==
    /\ pc = [t \in Threads |-> "idle"] /\ calls = 0 /\ InitMqtt
    /\ InitDashboard /\ ~solar_available /\ current_price = None
    /\ tasks = EmptyBag /\ \A s \in StartMinutes : clock <= s
    /\ solar_calls = NotCounted /\ sessions = 0
    /\ InitSolarInputs /\ InitRace
    /\ InitClients /\ InitRes /\ InitNoHandles /\ InitSample
    /\ InitCache /\ InitConstructed /\ InitSink /\ sinkHost /\ sinkAuth
    /\ ~sinkConnected /\ ~sinkClient

NextSolar == CallIsSunUp \/ CallCalculateInterval

SpecSolar == InitSolarSpec /\ [][NextSolar]_vars

\* Several threads in _ensure_connection and write_power_data of the one
\* sink while the clock advances.
InitRaceSpec == InitSinkSpec /\ sinkMade

NextRace ==
    \/ RaceTick
    \/ \E t \in Threads :
         \/ \E op \in {"ensure", "write"} : sink_call(t, op)
         \/ EnsureCheck(t)
         \/ EnsureMark(t)
         \/ EnsureConnect(t)
         \/ EnsureBackoff(t)
         \/ EnsureWrite(t)

SpecRace == InitRaceSpec /\ [][NextRace]_vars

(***************************************************************************)
(* Properties                                                              *)
(***************************************************************************)

\* C1 (SpecClients): the connected-clients counter is never negative, and
\* neither is any value increment_clients, decrement_clients or
\* get_client_count has returned.
C1_CounterNonNegative ==
    /\ connected_clients >= 0
    /\ \A t \in Threads : cret[t].op # "none" => cret[t].val >= 0

\* C1 witness: a decrement_clients call made at count 0 has returned 0.
C1_Witness ==
    /\ nInc = 0
    /\ connected_clients = 0
    /\ \E t \in Threads : cret[t].op = "dec" /\ cret[t].val = 0

\* C2 (SpecClients), as claimed: once every increment_clients and
\* decrement_clients call has returned, the count get_client_count returns is
\* max(0, number of increments - number of decrements).
C2_FinalCountIsClampedDifference ==
    AllIdle => connected_clients = Max(0, nInc - nDec)

\* C3 (SpecPower): the dict get_latest_power_data returns is an object of
\* its own.  Whatever callers assign to the dicts they were given, the
\* stored sample is still the one the last update stored, and each returned
\* dict holds what its own caller left in it; no returned dict is the stored
\* dict or another caller's dict.
C3_IndependentCopy ==
    /\ latest # None =>
         heap[latest] = NewSample(lastUpdate.power, lastUpdate.timestamp)
    /\ \A t \in Threads : held[t] # None =>
         /\ Present(heap[held[t]]) = snap[t]
         /\ held[t] # latest
         /\ \A u \in Threads \ {t} : held[u] # held[t]

\* C3 witness: two callers hold returned dicts, one of them has assigned to
\* its dict and the other has not, and a sample is stored.
C3_Witness ==
    /\ latest # None
    /\ \E t, u \in Threads :
         /\ t # u /\ held[t] # None /\ held[u] # None
         /\ heap[held[t]].power = MutatedPower
         /\ heap[held[u]].power # MutatedPower

\* C4 (SpecPower), as claimed: get_latest_power_data returns absent before
\* any update, and otherwise exactly the (power, timestamp) pair passed to
\* the update_power_data call that last replaced the sample.
C4_ReturnsPairOfLastUpdate ==
    \A t \in Threads : seen[t].done => seen[t].got = seen[t].upd

\* C4 (SpecPower), amended: get_latest_power_data returns absent before any
\* update, and otherwise the pair (round(power, 2), timestamp) of the
\* update_power_data call that last replaced the sample: power and timestamp
\* always come from the same update.
C4_ReturnsRoundedPairOfLastUpdate ==
    \A t \in Threads : seen[t].done =>
        seen[t].got = IF seen[t].upd.present
                      THEN [present |-> TRUE, power |-> Round2(seen[t].upd.power),
                            timestamp |-> seen[t].upd.timestamp]
                      ELSE Absent

\* C4 witness: a get that followed two updates, the first one's sample
\* replaced and reclaimed, returned the second one's sample, rounded to
\* 1234.57 W.
C4_Witness ==
    /\ Len(heap) = 2 /\ latest = 2
    /\ \E t \in Threads :
         /\ seen[t].done /\ held[t] = 1
         /\ seen[t].upd.power = 1234568 /\ seen[t].got.power = 1234570
         /\ seen[t].got.power = 1234570

\* C5 (SpecRes): for each resource kind the constructor completes
\* successfully at most once, and every create or get call that returned a
\* handle returned the cached one.
C5_SingleFlight ==
    /\ \A k \in Kinds : ctorOk[k] <= 1
    /\ \A t \in Threads : (rret[t].op # "none" /\ rret[t].val # None) =>
         rret[t].val = handle[rret[t].kind]

\* C5 witness: two threads' create calls for the same kind have both returned
\* the same handle.
C5_Witness ==
    \E t, u \in Threads :
      /\ t # u /\ rret[t].op = "create" /\ rret[u].op = "create"
      /\ rret[t].kind = rret[u].kind /\ rret[t].done /\ rret[u].done
      /\ rret[t].val # None /\ rret[t].val = rret[u].val

\* C6 (SpecRes): a create call whose constructor raised returns None; a
\* handle is cached only by a constructor that completed, so after failures
\* alone the getter returns None; and a create call returns None only when
\* the constructor it invoked itself raised, never from a remembered failure.
C6_FailureNotCached ==
    /\ \A t \in Threads : rret[t].raised => rret[t].val = None
    /\ \A k \in Kinds : handle[k] # None => ctorOk[k] >= 1
    /\ \A t \in Threads : (rret[t].op = "create" /\ rret[t].done /\ rret[t].val = None)
                             => rret[t].raised

\* C6 witness: a create call returned None because its constructor raised,
\* and a later create call of the same kind constructed the handle.
C6_Witness ==
    \E t \in Threads, k \in Kinds :
      /\ rret[t].op = "create" /\ rret[t].kind = k /\ rret[t].done /\ rret[t].raised
      /\ ctorCalls[k] = 2 /\ ctorOk[k] = 1 /\ handle[k] # None

\* C7 (SpecNew), as claimed: every DataManager() call returns the one
\* instance: no call ends in an exception, every call that returned got
\* DataManager._instance, and at most one object is created.
C7_EveryCallReturnsTheInstance ==
    /\ created <= 1
    /\ \A t \in Threads :
         /\ nres[t] # "raised"
         /\ nres[t] = "returned" => self[t] = instance

\* C8 (SpecSink), as claimed: after every failed reconnection attempt the
\* backoff delay is twice what it was, and it never exceeds 60 seconds.
C8_BackoffStrictlyDoubles ==
    /\ reconnectDelay <= MaxReconnectDelay
    /\ (sinkLast.attempted /\ ~sinkLast.ok) => reconnectDelay = 2 * sinkLast.delayBefore

\* C8 (SpecSink), amended: after every failed reconnection attempt the
\* backoff delay is min(twice what it was, 60), and it never exceeds 60 seconds.
C8_BackoffDoublesUpToCap ==
    /\ reconnectDelay <= MaxReconnectDelay
    /\ (sinkLast.attempted /\ ~sinkLast.ok) =>
         reconnectDelay = Min(2 * sinkLast.delayBefore, MaxReconnectDelay)

\* C8 witness: a failed reconnection attempt made at a delay of 40 s has left
\* the delay at 60 s.
C8_Witness ==
    /\ sinkLast.attempted /\ ~sinkLast.ok
    /\ sinkLast.delayBefore = 40 /\ reconnectDelay = 60

\* C9 (SpecSink), as claimed: _ensure_connection on a connected sink returns
\* True without a connection attempt; on a disconnected sink it attempts to
\* connect only if the backoff delay has elapsed since the sink's previous
\* connection attempt (the first being the one made at construction), and
\* otherwise returns False without attempting.
C9_AttemptOnlyAfterBackoff ==
    sinkLast.op = "ensure" =>
      /\ sinkLast.connectedBefore => (sinkLast.ret /\ ~sinkLast.attempted)
      /\ ~sinkLast.connectedBefore =>
           /\ sinkLast.attempted => sinkLast.due
           /\ ~sinkLast.due => (~sinkLast.attempted /\ ~sinkLast.ret)

\* C10 (SpecSink): a write_power_data call on a disconnected sink in which no
\* reconnection succeeded returned False and did not call write on the
\* write API.
C10_NoWriteWhenDisconnected ==
    (sinkLast.op = "write" /\ ~sinkLast.connectedBefore /\ ~sinkLast.ok) =>
        (~sinkLast.ret /\ ~sinkLast.wrote)

\* C10 witness: write_power_data on a disconnected sink attempted to
\* reconnect, failed, and returned False without writing.
C10_Witness ==
    /\ sinkLast.op = "write" /\ ~sinkLast.connectedBefore
    /\ sinkLast.attempted /\ ~sinkLast.ok
    /\ ~sinkLast.ret /\ ~sinkLast.wrote

\* C11 (SpecSink): a write_power_data call in which the write on the write
\* API raised returned False, no exception left the call, and is_connected()
\* is False afterwards; in particular when the sink was connected at the call.
C11_WriteErrorDisconnects ==
    (sinkLast.op = "write" /\ sinkLast.raised) =>
        (sinkLast.wrote /\ ~sinkLast.ret /\ ~sinkConnected)

\* C11 witness: write_power_data on a connected sink called write, the write
\* raised, the call returned False and the sink is disconnected.
C11_Witness ==
    /\ sinkLast.op = "write" /\ sinkLast.connectedBefore /\ sinkLast.raised
    /\ ~sinkLast.ret /\ ~sinkConnected /\ sinkClient

\* C13 (SpecSink), as claimed: constructing the sink with a host but with
\* neither a token nor user and password fails, so that no sink object exists.
C13_NoCredentialsNoSink ==
    (sinkHost /\ ~sinkAuth) => ~sinkMade

\* C14 (SpecSink): after a close() the sink is disconnected and has no
\* client, and a close() that follows a close() leaves the state as it was
\* and does not call close on the client.
C14_CloseIdempotent ==
    sinkLast.op = "close" =>
      /\ ~sinkConnected /\ ~sinkClient
      /\ sinkLast.again => (~sinkLast.changed /\ ~sinkLast.closed)

\* C14 witness: a second close() in a row, on a sink that had been connected
\* at construction, has been made.
C14_Witness ==
    /\ sinkLast.op = "close" /\ sinkLast.again /\ ~sinkLast.closed
    /\ sinkAuth /\ ~sinkConnected /\ ~sinkClient

\* C12 (SpecRecover), as claimed: once the sink is disconnected, with samples
\* arriving for ever and the store reachable, eventually an
\* update_power_data call makes write_power_data reconnect and write its
\* sample.
C12_UpdatesEventuallyReconnect ==
    (sinkMade /\ sinkAuth /\ ~sinkConnected) ~>
        (sinkLast.op = "write" /\ sinkLast.attempted /\ sinkLast.ok /\ sinkLast.ret)

\* C15 (SpecMqtt): an _on_message call whose payload did not parse as a
\* number (float raised, or the bytes were not UTF-8) left current_power and
\* last_updated as they were and did not call the power callback.
C15_UnparsedPayloadDropped ==
    mqttLast.kind \in {"parse_error", "decode_error"} =>
        /\ current_power = mqttLast.powerBefore
        /\ last_updated = mqttLast.updatedBefore
        /\ mqttLast.ncalls = 0

\* C15 witness: with a callback registered and a sample received, a payload
\* that float rejects was delivered; the sample and the one callback call
\* are still those of the first message.
C15_Witness ==
    /\ mqttLast.kind = "parse_error" /\ power_callback
    /\ current_power = Power(1250) /\ last_updated = MsgTime(1)
    /\ Len(cbLog) = 1 /\ delivered = 2

\* C16 (SpecMqtt): the power callback has been called exactly once for each
\* parsed message that arrived while it was registered, in arrival order,
\* with the parsed value, and at each call current_power and last_updated
\* already held that sample.
C16_CallbackAfterUpdateInOrder ==
    /\ Len(cbLog) = Len(accepted)
    /\ \A i \in DOMAIN cbLog :
         /\ cbLog[i].value = accepted[i].value
         /\ cbLog[i].power = Power(accepted[i].value)
         /\ cbLog[i].updated = accepted[i].time
    /\ mqttLast.kind = "ok" =>
         /\ current_power.set /\ last_updated = MsgTime(delivered)
         /\ mqttLast.ncalls = (IF mqttLast.hadCallback THEN 1 ELSE 0)

\* C16 witness: three parsed messages of different values, 12.5, -3 and
\* 100 W, each reported to the callback, the second call having raised.
C16_Witness ==
    /\ Len(cbLog) = 3
    /\ cbLog[1].value = 1250 /\ cbLog[2].value = -300 /\ cbLog[3].value = 10000
    /\ cbLog[3].updated = MsgTime(3) /\ current_power = Power(10000)
    /\ mqttLast.cbOut = "raises"

\* C17 (SpecMqtt), as claimed: whatever the payload, _on_message returns
\* normally: no exception leaves the handler.
C17_HandlerNeverRaises ==
    ~mqttLast.escaped

\* C18 (SpecSched): an iteration of the background loop at which
\* has_connected_clients() was False issued no solar fetch.
C18_NoSolarFetchWithoutClients ==
    (schedLast.ticked /\ ~schedLast.hasClients) => schedLast.solarFetches = 0

\* C18 witness: an iteration without clients issued no solar fetch although
\* solar is available, the sun was up and the planned interval had elapsed
\* since the last solar fetch.
C18_Witness ==
    /\ schedLast.ticked /\ ~schedLast.hasClients
    /\ solar_available /\ schedLast.sunUp
    /\ last_solar_update # None /\ clock - last_solar_update >= solar_update_interval
    /\ schedLast.solarFetches = 0

\* C19 (SpecSched), as claimed: an iteration of the background loop at which
\* has_connected_clients() was False issued no fetch at all, neither of the
\* solar production nor of the spot price.
C19_NoFetchWithoutClients ==
    (schedLast.ticked /\ ~schedLast.hasClients) =>
        (schedLast.solarFetches = 0 /\ schedLast.priceFetches = 0)

\* C20 (SpecSched): an iteration whose (hour, minute // 15) differs from that
\* of the last price fetch, last_price_update, issued exactly one price
\* fetch, and an iteration in the same hour and quarter as the last price
\* fetch issued none, whatever the time between iterations.
C20_QuarterHourGating ==
    (schedLast.ticked /\ schedLast.lastPriceBefore # None) =>
        LET last == schedLast.lastPriceBefore
            same == /\ Hour(clock) = Hour(last)
                    /\ Minute(clock) \div 15 = Minute(last) \div 15
        IN  schedLast.priceFetches = (IF same THEN 0 ELSE 1)

\* C20 witness: the last price fetch was made between 00:00 and 00:14, and
\* the iteration at 00:15 issued a price fetch.
C20_Witness ==
    /\ schedLast.ticked /\ schedLast.lastPriceBefore # None
    /\ Hour(clock) = 0 /\ Minute(clock) = 15
    /\ Hour(schedLast.lastPriceBefore) = 0 /\ Minute(schedLast.lastPriceBefore) < 15
    /\ schedLast.priceFetches = 1 /\ last_price_update = clock

\* C21: a fetch of the spot price or of the solar production whose
\* collaborator returns nothing or raises leaves last_price_update,
\* respectively last_solar_update, as the iteration found it.
C21_FailedFetchKeepsLastFetch ==
    schedLast.ticked =>
        /\ schedLast.priceOut \in {"absent", "raise"} =>
              last_price_update = schedLast.lastPriceBefore
        /\ schedLast.solarOut \in {"absent", "raise"} =>
              last_solar_update = schedLast.lastSolarBefore

\* C22: an iteration with a successful fetch has set that source's last
\* update to the time of the iteration, has stored the value in the
\* DataManager, and has issued a write to the sink.
C22_SuccessfulFetchWritesThrough ==
    /\ (schedLast.ticked /\ schedLast.priceOut = "value") =>
          /\ last_price_update = clock
          /\ latest_spot_price = current_price /\ current_price # None
          /\ schedLast.sinkWrites >= 1
    /\ (schedLast.ticked /\ schedLast.solarOut = "value") =>
          /\ last_solar_update = clock
          /\ latest_solar_production = current_solar_power
          /\ current_solar_power # None
          /\ schedLast.sinkWrites >= 1

\* C23 (SpecSolar): when sun() succeeds and allowed_calls >= 1,
\* calculate_solar_update_interval returns the integer part of
\* max(5, daylight minutes / allowed_calls): at least 5, exactly 5 for
\* 300 calls at 0.9 over 360 minutes, at least 13 for 50 calls at 0.9
\* over 600 minutes.
C23_IntervalIsFlooredClampedQuotient ==
    LET a == (budgetIn.max_daily_calls * budgetIn.usage_percent) \div 100
        d == sunIn.sunset - sunIn.sunrise
        n == solarRet.value
    IN  (solarRet.op = "interval" /\ ~sunIn.raises /\ a >= 1) =>
          /\ ~solarRet.raised
          /\ n \in Nat /\ n >= 5
          /\ d < 5 * a => n = 5
          /\ d >= 5 * a => (n * a <= d /\ d < (n + 1) * a)
          /\ (budgetIn.max_daily_calls = 300 /\ budgetIn.usage_percent = 90
                /\ d = 360) => n = 5
          /\ (budgetIn.max_daily_calls = 50 /\ budgetIn.usage_percent = 90
                /\ d = 600) => n >= 13

C23_Witness ==
    /\ solarRet.op = "interval" /\ ~sunIn.raises
    /\ budgetIn = [max_daily_calls |-> 50, usage_percent |-> 90]
    /\ sunIn.sunset - sunIn.sunrise = 600
    /\ solarRet.value = 13

\* C24 (SpecSolar): when sun() raises or allowed_calls is 0,
\* calculate_solar_update_interval returns 10 and raises nothing.
C24_IntervalFallback ==
    (/\ solarRet.op = "interval"
     /\ \/ sunIn.raises
        \/ (budgetIn.max_daily_calls * budgetIn.usage_percent) \div 100 = 0) =>
        (~solarRet.raised /\ solarRet.value = 10)

C24_Witness ==
    /\ solarRet.op = "interval" /\ ~sunIn.raises
    /\ budgetIn.max_daily_calls = 1 /\ budgetIn.usage_percent = 90
    /\ sunIn.sunset - sunIn.sunrise = 600
    /\ solarRet.value = 10 /\ ~solarRet.raised

\* C25 (SpecSolar): when sun() succeeds, is_sun_up returns True exactly when
\* sunrise <= now <= sunset: True at sunrise and at sunset, False a minute
\* before sunrise and a minute after sunset.
C25_SunUpInclusive ==
    (solarRet.op = "is_sun_up" /\ ~sunIn.raises) =>
        /\ solarRet.value \in BOOLEAN
        /\ solarRet.value <=> (sunIn.sunrise <= sunIn.now /\ sunIn.now <= sunIn.sunset)
        /\ sunIn.now \in {sunIn.sunrise, sunIn.sunset} => solarRet.value
        /\ sunIn.now \in {sunIn.sunrise - 1, sunIn.sunset + 1} => ~solarRet.value

C25_Witness ==
    /\ solarRet.op = "is_sun_up" /\ ~sunIn.raises
    /\ sunIn.sunrise < sunIn.sunset /\ sunIn.now = sunIn.sunset
    /\ solarRet.value = TRUE

\* C26 (SpecSched): at most one background_update_loop task exists, however
\* many pages have been served.
C26_SingleLoopTask == BagCardinality(tasks) <= 1

\* C27 (SpecRes), as claimed: a thread about to call out to the network, for
\* the connection the sink's constructor makes or for a sink write, holds no
\* lock of the DataManager.
C27_NoLockHeldDuringIO ==
    \A t \in Threads : OutboundCall(t) => LocksHeld(t) = {}

\* C28 (SpecRace), as claimed: at most one thread is inside a reconnection
\* attempt of the sink at any time.
C28_OneReconnectAtATime == Cardinality(Connecting) <= 1

\* C29 (SpecFirstCalls), as claimed: no __init__ resets a field that a
\* caller has updated: once every call has returned, the connected-clients
\* counter is the number of increment_clients calls made, whatever the
\* DataManager() calls they were interleaved with.
C29_InitBodyResetsNothing == AllIdle => connected_clients = nInc

\* C30 (SpecSink): the backoff delay of a sink is always one of 5, 10, 20,
\* 40 and 60 seconds, and no operation, a successful reconnection, a
\* successful write and close() included, leaves it lower than it found it.
C30_DelayNeverDecreases ==
    /\ reconnectDelay \in {5, 10, 20, 40, 60}
    /\ sinkLast.op # "none" => reconnectDelay >= sinkLast.delayBefore

C30_Witness ==
    /\ sinkLast.op = "write" /\ sinkLast.attempted /\ sinkLast.ok /\ sinkLast.ret
    /\ sinkConnected /\ sinkLast.delayBefore = 20 /\ reconnectDelay = 20

\* C31 (SpecSched): an iteration issues a solar fetch only if solar is
\* available, has_connected_clients() and is_sun_up() returned True, and
\* last_solar_update was None or at least solar_update_interval minutes
\* before the iteration; so a successful fetch that follows a successful
\* one is at least solar_update_interval minutes after it.
C31_SolarFetchGated ==
    (schedLast.ticked /\ schedLast.solarFetches > 0) =>
        /\ schedLast.solarFetches = 1
        /\ solar_available /\ schedLast.hasClients /\ schedLast.sunUp
        /\ \/ schedLast.lastSolarBefore = None
           \/ clock - schedLast.lastSolarBefore >= solar_update_interval

\* C31 witness: a successful solar fetch exactly solar_update_interval
\* minutes after the successful fetch before it.
C31_Witness ==
    /\ schedLast.ticked /\ schedLast.solarOut = "value"
    /\ schedLast.lastSolarBefore # None
    /\ clock - schedLast.lastSolarBefore = solar_update_interval
    /\ last_solar_update = clock

\* C32 (SpecBudget), as claimed: the solar API calls issued on one date
\* never exceed the daily budget of 300 calls.
C32_DailyBudgetKept ==
    solar_calls # NotCounted => solar_calls.n <= DailyCallBudget

\* C33 (SpecPages), as claimed: whatever pages were opened and whatever
\* clients disconnected, the client count equals the number of sessions
\* that are open.
C33_CountIsOpenSessions ==
    connected_clients = sessions

\* C34 (SpecPower): no update_power_data call ends with an exception; a call
\* that has reached _write_to_influxdb has replaced the stored sample; and
\* the stored sample is the one of the last call that stored, whatever the
\* sink did since: no sink, sink not connected, write returning False,
\* write raising.
C34_StoreUpdatedWhateverTheSink ==
    /\ \A t \in Threads : ~wloc[t].raised
    /\ \A t \in Threads :
          pc[t] \in {"w_get", "w_connected", "w_cache", "w_write"} =>
              latest # None /\ lastUpdate.present
    /\ latest # None =>
          /\ heap[latest].power = Round2(lastUpdate.power)
          /\ heap[latest].timestamp = lastUpdate.timestamp

\* C34 witness: the only call made so far has returned, its write to the
\* sink raised, and the store holds its sample.
C34_Witness ==
    /\ calls = 1 /\ AllIdle
    /\ sinkLast.op = "write" /\ sinkLast.wrote /\ sinkLast.raised /\ ~sinkLast.ret
    /\ latest # None /\ lastUpdate.present
    /\ heap[latest].power = Round2(lastUpdate.power)

\* C35 (SpecPoint), as claimed: a point update_power_data has written
\* carries the timestamp and the grid power of that call, and the spot price
\* and the solar production the DataManager holds at the moment of the
\* write, each as a field if it is not None and not at all if it is.
C35_PointHoldsCurrentValues ==
    (lastPoint.on /\ lastPoint.any) =>
        LET f == lastPoint.point.fields IN
        /\ lastPoint.point.time = lastPoint.timestamp
        /\ "grid_power" \in DOMAIN f /\ f["grid_power"] = lastPoint.power
        /\ IF lastPoint.spot = None THEN "spot_price" \notin DOMAIN f
           ELSE "spot_price" \in DOMAIN f /\ f["spot_price"] = lastPoint.spot
        /\ IF lastPoint.solar = None THEN "solar_production" \notin DOMAIN f
           ELSE "solar_production" \in DOMAIN f
                /\ f["solar_production"] = lastPoint.solar

\* C35 (SpecPoint), amended: a point update_power_data has written carries
\* the timestamp and the grid power of that call, and the spot price and the
\* solar production the call read from the cache after its store and before
\* the write, each as a field if it is not None and not at all if it is.
C35_PointHoldsValuesRead ==
    (lastPoint.on /\ lastPoint.any) =>
        LET f == lastPoint.point.fields IN
        /\ lastPoint.point.time = lastPoint.timestamp
        /\ "grid_power" \in DOMAIN f /\ f["grid_power"] = lastPoint.power
        /\ IF lastPoint.readSpot = None THEN "spot_price" \notin DOMAIN f
           ELSE "spot_price" \in DOMAIN f /\ f["spot_price"] = lastPoint.readSpot
        /\ IF lastPoint.readSolar = None THEN "solar_production" \notin DOMAIN f
           ELSE "solar_production" \in DOMAIN f
                /\ f["solar_production"] = lastPoint.readSolar

\* C35 witness: a point taken by the write API that has the grid power and
\* the spot price and no solar production, none having been stored yet.
C35_Witness ==
    /\ lastPoint.on /\ lastPoint.any /\ lastPoint.taken
    /\ lastPoint.readSpot # None /\ lastPoint.readSolar = None
    /\ lastPoint.solar = None
    /\ DOMAIN lastPoint.point.fields = {"grid_power", "spot_price"}

\* C39 (SpecOrder), as claimed: once every update_power_data call has
\* returned, the grid power of the last point written to the connected sink
\* is, to two decimals, the grid power of the sample in the store.
C39_LastWrittenIsStored ==
    (lastPoint.on /\ lastPoint.any /\ lastPoint.taken /\ AllIdle /\ sinkConnected) =>
        /\ latest # None
        /\ Round2(lastPoint.point.fields["grid_power"]) = heap[latest].power

\* C36 (SpecSched), as claimed: an iteration whose price fetch (solar fetch)
\* got nothing from the collaborator left the spot price (solar production)
\* of the DataManager and current_price (current_solar_power) of the
\* dashboard as it found them.
C36_AbsentFetchChangesNothing ==
    schedLast.ticked =>
        /\ schedLast.priceKept
        /\ schedLast.solarKept

\* C37 (SpecMqtt), as claimed: after a CONNACK with rc = 0 the connection
\* status is True; after a CONNACK with another rc, after _on_disconnect
\* with any rc and after disconnect() it is False; and connect() leaves it
\* as it was, whatever it returns.
C37_StatusFollowsLastEvent ==
    CASE mqttEvent.kind = "on_connect" -> is_connected <=> (mqttEvent.rc = 0)
      [] mqttEvent.kind \in {"on_disconnect", "disconnect"} -> ~is_connected
      [] mqttEvent.kind = "connect" -> is_connected = mqttEvent.before
      [] OTHER -> ~is_connected

\* C38 (SpecSched): until the first iteration of the loop last_price_update
\* and last_solar_update are None, whatever the fetches of __init__ got; and
\* the first iteration issues a price fetch, and a solar fetch whenever solar
\* is available, has_connected_clients() and is_sun_up() hold.
C38_FirstIterationFetches ==
    /\ schedLast.nth = 0 => (last_price_update = None /\ last_solar_update = None)
    /\ (schedLast.ticked /\ schedLast.nth = 1) =>
          /\ schedLast.priceFetches = 1
          /\ (solar_available /\ schedLast.hasClients /\ schedLast.sunUp) =>
                schedLast.solarFetches = 1

\* C38 witness: the first iteration, one minute after __init__ and in the
\* same quarter of an hour, has fetched the price and the solar production.
C38_Witness ==
    /\ schedLast.ticked /\ schedLast.nth = 1
    /\ clock = StartOf(clock) + 1
    /\ Minute(clock) \div 15 = Minute(StartOf(clock)) \div 15
    /\ schedLast.priceFetches = 1 /\ schedLast.solarFetches = 1

=============================================================================
